---------------------------- MODULE Spec2Model ----------------------------
(***************************************************************************)
(* Verification model of the blyth-twin mesh pipeline.                     *)
(*                                                                         *)
(* The pipeline is a set of independent stages; each stage is modelled as  *)
(* its own specification over its own group of variables, the other       *)
(* groups staying at their idle value:                                     *)
(*   SpecHeights   50_building_heights.py  derive_heights                  *)
(*   SpecEnvelope  57_procedural_detail.py / 60_generate_meshes.py         *)
(*                 building envelope builders                              *)
(*   SpecRibbon    60_generate_meshes.py  create_ribbon_mesh               *)
(*   SpecTerrain   60_generate_meshes.py  generate_terrain_mesh            *)
(*   SpecScene     60_generate_meshes.py main, 70_pack_assets.py main      *)
(*   SpecPipeline  run_pipeline.py  run_pipeline, run_step                 *)
(*                                                                         *)
(* Lengths and heights are integers in centimetres unless stated.          *)
(***************************************************************************)
EXTENDS Integers, Sequences, FiniteSets, TLC

(***************************************************************************)
(* Generic helpers                                                         *)
(***************************************************************************)
None == [k |-> "None"]
Some(v) == [k |-> "Some", v |-> v]
IsNone(x) == x.k = "None"

Min2(a, b) == IF a <= b THEN a ELSE b
Max2(a, b) == IF a >= b THEN a ELSE b
Abs(a) == IF a < 0 THEN -a ELSE a
SetMin(S) == CHOOSE v \in S : \A w \in S : v <= w
SetMax(S) == CHOOSE v \in S : \A w \in S : v >= w

(***************************************************************************)
(* ----------------------------------------------------------------------- *)
(* Stage 50: building height derivation                                    *)
(* ----------------------------------------------------------------------- *)
(***************************************************************************)
VARIABLES
    row,            \* the building row the loop body last ran on
    batch_updates,  \* list of (height, source, building_id)
    stats,          \* per-provenance counters
    processed,      \* number of rows the loop body has run on
    hpc,            \* "loop" | "crashed" | "done"
    db              \* height / height_source columns after the commit

hvars == <<row, batch_updates, stats, processed, hpc, db>>

\* Stages 57/60: building envelope synthesis
VARIABLES
    envelope        \* the last synthesized envelope: builder, inputs, mesh

evars == <<envelope>>

\* Stage 60: ribbon meshes (roads, railways, waterways)
VARIABLES
    feature,        \* the linear feature handed to the generator
    ribbon          \* the result of create_ribbon_mesh for it, once built

rvars == <<feature, ribbon>>

\* Stage 60: terrain grid mesher
VARIABLES
    raster,         \* the DTM handed to generate_terrain_mesh, with its arguments
    terrain         \* the chunks it returned, once run

tvars == <<raster, terrain>>

\* Stages 60 / 70: chunking, saving and packing of the whole scene
VARIABLES
    stage,             \* the generator main() is running, then "footprints",
                       \* "pack", "done"
    nfeatures,         \* features the generator loops have consumed so far
    meshes_by_chunk,   \* the running generator's dict: chunk key -> fragments
    water_chunks,      \* the water-body dict kept while waterways are generated
    processed_dir,     \* per asset directory: chunk key -> saved file
    buildings_metadata,\* buildings_metadata.json: chunk key -> face map
    manifest,          \* manifest.json written by stage 70
    coast_file,        \* what main() found at coast.geojson, once it looked
    counts,            \* the running generator's success and failed counters,
                       \* and the features its loop has taken
    buildings_geojson, \* features of buildings_height.geojson, in file order,
                       \* as far as the building loop has read them
    footprints_metadata \* footprints_metadata.json: chunk key -> face map

pvars == <<stage, nfeatures, meshes_by_chunk, water_chunks, processed_dir,
           buildings_metadata, manifest, coast_file, counts,
           buildings_geojson, footprints_metadata>>

\* run_pipeline.py: one orchestrated run for a twin
VARIABLES
    twin,           \* the twin's row: the origin its centre projects to
    scripts,        \* the script files present in SCRIPT_DIR
    fs,             \* aoi.geojson of the shared and of the twin's config
                    \* directory, files present in the shared data directory
    loop,           \* where run_pipeline is
    step_i,         \* index into PIPELINE_STEPS of the loop iteration
    child,          \* index of the step whose subprocess runs, 0 if none
    history,        \* starts and returns of the steps, in order
    twin_status,    \* the status row written by update_twin_status
    origins,        \* the origin each stage worked with, once it has run
    mesh_exit       \* what the mesh stage did: inputs passed over, exit code

ovars == <<twin, scripts, fs, loop, step_i, child, history, twin_status,
           origins, mesh_exit>>

\* api/routers/twins.py: the endpoints acting on one twin, and the pipeline
\* processes they start for it
VARIABLES
    twin_row,       \* the twin's row of the twins table: "absent" before it is
                    \* created, its status while it is there, "deleted" after
    twin_dirs,      \* which of the twin's directories exist
    pipelines       \* per pipeline process queued so far, where it is

avars == <<twin_row, twin_dirs, pipelines>>

vars == <<hvars, evars, rvars, tvars, pvars, ovars, avars>>

\* bound: rows in the buildings table
MaxBuildings == 2

\* settings["buildings"], centimetres
storey_height == 300
min_height == 250
max_height == 8000
DefaultHeight == 600
ndsm_percentile == 90

Sources == {"osm_height", "osm_levels", "lidar", "default"}

\* ---- parse_height -------------------------------------------------------
DigitSeq == <<"0", "1", "2", "3", "4", "5", "6", "7", "8", "9">>
DigitChars == {DigitSeq[d] : d \in 1..10}
DigitValue(c) == (CHOOSE d \in 1..10 : DigitSeq[d] = c) - 1
NumChars == DigitChars \cup {"."}

\* str.strip(): drop leading and trailing blanks
RECURSIVE LStrip(_)
LStrip(s) == IF s # <<>> /\ Head(s) = " " THEN LStrip(Tail(s)) ELSE s
RECURSIVE RStrip(_)
RStrip(s) ==
    IF s # <<>> /\ s[Len(s)] = " " THEN RStrip(SubSeq(s, 1, Len(s) - 1)) ELSE s
Strip(s) == LStrip(RStrip(s))

\* group(1) of re.match(r"([\d.]+)\s*m?", s): the longest prefix of digits
\* and dots (empty when the pattern does not match)
RECURSIVE NumPrefix(_)
NumPrefix(s) ==
    IF s # <<>> /\ Head(s) \in NumChars
    THEN <<Head(s)>> \o NumPrefix(Tail(s))
    ELSE <<>>

RECURSIVE DigitsValue(_)
DigitsValue(ds) ==
    IF ds = <<>> THEN 0
    ELSE 10 * DigitsValue(SubSeq(ds, 1, Len(ds) - 1)) + DigitValue(ds[Len(ds)])

CountDots(s) == Cardinality({p \in 1..Len(s) : s[p] = "."})
CountDigits(s) == Cardinality({p \in 1..Len(s) : s[p] \in DigitChars})

\* float(text) for a text of digits and dots: ValueError (None here) unless
\* the text has at most one dot and at least one digit.  The value is in
\* centimetres; texts carry at most two fractional digits.
FloatOf(g) ==
    IF CountDots(g) > 1 \/ CountDigits(g) = 0 THEN None
    ELSE LET dot == IF CountDots(g) = 0 THEN Len(g) + 1
                    ELSE CHOOSE p \in 1..Len(g) : g[p] = "."
             ip == SubSeq(g, 1, dot - 1)
             fp == SubSeq(g, dot + 1, Len(g))
             f2 == IF Len(fp) = 0 THEN 0
                   ELSE IF Len(fp) = 1 THEN 10 * DigitsValue(fp)
                   ELSE DigitsValue(SubSeq(fp, 1, 2))
         IN  Some(100 * DigitsValue(ip) + f2)

\* a tag is absent (None) or Some(sequence of characters)
parse_height(height_str) ==
    IF IsNone(height_str) \/ height_str.v = <<>> THEN None
    ELSE LET g == NumPrefix(Strip(height_str.v))
         IN  IF g = <<>> THEN None ELSE FloatOf(g)

\* Python truthiness of an optional float
Truthy(x) == ~IsNone(x) /\ x.v # 0

\* ---- get_ndsm_height ----------------------------------------------------
\* the masked raster window of one footprint: a list of pixel values, or a
\* failure of mask()/the raster read
NODATA == -9999

ValidPixels(g) == SelectSeq(g.pixels, LAMBDA p : p > 0 /\ p # NODATA)

RECURSIVE SortAsc(_)
SortAsc(s) ==
    IF s = <<>> THEN <<>>
    ELSE LET m == CHOOSE p \in 1..Len(s) : \A q \in 1..Len(s) : s[p] <= s[q]
         IN  <<s[m]>> \o SortAsc(SubSeq(s, 1, m - 1) \o SubSeq(s, m + 1, Len(s)))

\* np.percentile(valid, q), linear interpolation between closest ranks
Percentile(valid, q) ==
    LET srt == SortAsc(valid)
        pos == q * (Len(srt) - 1)          \* rank * 100
        lo == pos \div 100
        fr == pos % 100
        hi == Min2(lo + 1, Len(srt) - 1)
    IN  srt[lo + 1] + (fr * (srt[hi + 1] - srt[lo + 1])) \div 100

get_ndsm_height_ZeroOnFailure(g, percentile) ==
    IF g.fails THEN Some(0)
    ELSE IF Len(ValidPixels(g)) = 0 THEN None
    ELSE Some(Percentile(ValidPixels(g), percentile))
get_ndsm_height(g, percentile) ==
    IF g.fails THEN None
    ELSE IF Len(ValidPixels(g)) = 0 THEN None
    ELSE Some(Percentile(ValidPixels(g), percentile))

\* ---- round(height, 1) ---------------------------------------------------
\* nearest multiple of 10 cm; an exact tie (x.25 m, x.75 m are exact binary
\* fractions) goes to the even tenth
Round1(cm) ==
    LET r == cm % 10
        dn == cm - r
    IN  IF r < 5 THEN dn
        ELSE IF r > 5 THEN dn + 10
        ELSE IF (dn \div 10) % 2 = 0 THEN dn ELSE dn + 10

\* ---- one iteration of the derive_heights loop ----------------------------
\* levels column: None, an integer, or a text int() rejects
LevelsTruthy(lv) == \/ lv.k = "Bad"
                    \/ (lv.k = "Int" /\ lv.v # 0)

\* Priority 1: OSM height tag
HeightAfterTag(r) ==
    IF ~IsNone(r.tag) /\ r.tag.v # <<>> THEN parse_height(r.tag) ELSE None
SourceAfterTag(r) ==
    IF Truthy(HeightAfterTag(r)) THEN Some("osm_height") ELSE None

\* Priority 2: OSM building:levels
UsesLevels(r) == IsNone(HeightAfterTag(r)) /\ LevelsTruthy(r.levels)
                    /\ r.levels.k = "Int"
HeightAfterLevels(r) ==
    IF UsesLevels(r) THEN Some(r.levels.v * storey_height)
    ELSE HeightAfterTag(r)
SourceAfterLevels(r) ==
    IF UsesLevels(r) THEN Some("osm_levels") ELSE SourceAfterTag(r)

\* Priority 3: LiDAR nDSM
TriesNdsm(r) == IsNone(HeightAfterLevels(r)) /\ r.geom.present
NdsmResult(r) ==
    IF r.geom.decodes THEN get_ndsm_height(r.geom, ndsm_percentile) ELSE None
HeightAfterNdsm(r) ==
    IF TriesNdsm(r) THEN NdsmResult(r) ELSE HeightAfterLevels(r)
SourceAfterNdsm(r) ==
    IF TriesNdsm(r) /\ Truthy(NdsmResult(r)) THEN Some("lidar")
    ELSE SourceAfterLevels(r)

\* Fallback: default height
HeightResolved(r) ==
    IF IsNone(HeightAfterNdsm(r)) THEN DefaultHeight ELSE HeightAfterNdsm(r).v
SourceResolved(r) ==
    IF IsNone(HeightAfterNdsm(r)) THEN Some("default") ELSE SourceAfterNdsm(r)

\* Clamp height
Clamp_Swapped(h) == Min2(min_height, Max2(h, max_height))
Clamp(h) == Max2(min_height, Min2(h, max_height))

\* ---- inputs ---------------------------------------------------------------
TagTexts == {
    <<"1", "2", "m">>,
    <<" ", "7", " ", "m">>,
    <<"1", "2", ".", "2", "5">>,
    <<"9", "0">>,
    <<"0">>,
    <<"a", "b", "c">>,
    <<"1", ".", "2", ".", "3">>
}
Tags == {None} \cup {Some(t) : t \in TagTexts}

LevelsVals == {None, [k |-> "Bad"]} \cup
              {[k |-> "Int", v |-> n] : n \in {4, -1}}

NoGeom == [present |-> FALSE, decodes |-> FALSE, fails |-> FALSE, pixels |-> <<>>]
Geom(px) == [present |-> TRUE, decodes |-> TRUE, fails |-> FALSE, pixels |-> px]
Geoms == {NoGeom,
          [present |-> TRUE, decodes |-> FALSE, fails |-> FALSE, pixels |-> <<>>],
          [present |-> TRUE, decodes |-> TRUE, fails |-> TRUE, pixels |-> <<>>],
          Geom(<<0, NODATA>>),
          Geom(<<100, NODATA, 500, 0>>)}

Rows == [tag : Tags, levels : LevelsVals, geom : Geoms]
NoRow == [tag |-> None, levels |-> None, geom |-> NoGeom]

HeightsStart ==
    /\ row = NoRow
    /\ batch_updates = <<>>
    /\ stats = [s \in Sources |-> 0]
    /\ processed = 0
    /\ hpc = "loop"
    /\ db = <<>>

HeightsOthers == <<evars, rvars, tvars, pvars, ovars, avars>>

\* lines 134-179: the loop body on the next row; stats[source] raises
\* KeyError when no provenance was set, which ends derive_heights before the
\* batch update
ProcessBuilding ==
    /\ hpc = "loop"
    /\ processed < MaxBuildings
    /\ \E r \in Rows :
         /\ row' = r
         /\ processed' = processed + 1
         /\ IF IsNone(SourceResolved(r))
            THEN /\ hpc' = "crashed"
                 /\ UNCHANGED <<batch_updates, stats>>
            ELSE /\ hpc' = "loop"
                 /\ stats' = [stats EXCEPT ![SourceResolved(r).v] = @ + 1]
                 /\ batch_updates' = Append(batch_updates,
                        [height |-> Round1(Clamp(HeightResolved(r))),
                         source |-> SourceResolved(r).v,
                         id |-> processed + 1])
    /\ UNCHANGED <<db, HeightsOthers>>

\* lines 184-196: executemany + commit once every row has been visited
CommitHeights ==
    /\ hpc = "loop"
    /\ processed >= 1
    /\ db' = batch_updates
    /\ hpc' = "done"
    /\ UNCHANGED <<row, batch_updates, stats, processed, HeightsOthers>>

NextHeights == ProcessBuilding \/ CommitHeights


(***************************************************************************)
(* Claims on stage 50 (checked under SpecHeights)                          *)
(***************************************************************************)
LastUpdate == batch_updates[Len(batch_updates)]
InRange(h) == min_height <= h /\ h <= max_height

\* C1: every building the loop body ran on has a stored height h with
\* min_height <= h <= max_height and exactly one provenance tag out of
\* explicit tag, levels, nDSM, default.
C1_ClampedWithOneProvenance ==
    /\ Len(batch_updates) = processed
    /\ \A j \in 1..Len(batch_updates) :
         /\ InRange(batch_updates[j].height)
         /\ batch_updates[j].source \in Sources
    /\ stats["osm_height"] + stats["osm_levels"] + stats["lidar"]
         + stats["default"] = processed

\* what each source yields for a row, taken on its own
TagYields(r) == Truthy(parse_height(r.tag))
LevelsYield(r) == r.levels.k = "Int" /\ r.levels.v # 0
NdsmYields(r) ==
    r.geom.present /\ r.geom.decodes /\ ~r.geom.fails /\ Len(ValidPixels(r.geom)) > 0
FirstMatch(r) ==
    IF TagYields(r) THEN "osm_height"
    ELSE IF LevelsYield(r) THEN "osm_levels"
    ELSE IF NdsmYields(r) THEN "lidar"
    ELSE "default"

\* C2: resolution is first-match-wins in the order explicit tag, levels,
\* nDSM, default: the provenance recorded for a building is the first source
\* that yields a value, and the default exactly when none of the three does.
C2_FirstMatchWins ==
    processed > 0 =>
        /\ Len(batch_updates) = processed
        /\ LastUpdate.source = FirstMatch(row)

\* C3 (as stated): a resolved value inside [min_height, max_height] that
\* comes from the explicit tag is stored equal to the tag's numeric prefix,
\* and one that comes from the level count equal to levels x storey height.
C3_StoredEqualsSource ==
    (processed > 0 /\ Len(batch_updates) = processed
        /\ InRange(HeightResolved(row))) =>
        /\ LastUpdate.source = "osm_height" =>
               LastUpdate.height = parse_height(row.tag).v
        /\ LastUpdate.source = "osm_levels" =>
               LastUpdate.height = row.levels.v * 300

\* C3 (amended): as C3, the explicit-tag value being rounded to one decimal
\* place - the stored height is the multiple of 0.1 m nearest to the tag's
\* numeric prefix ("12m" gives 12.0, "12.25" gives 12.2); levels=4 with
\* storey height 3.0 gives 12.0.
C3_StoredEqualsRoundedSource ==
    (processed > 0 /\ Len(batch_updates) = processed
        /\ InRange(HeightResolved(row))) =>
        /\ LastUpdate.source = "osm_height" =>
               /\ LastUpdate.height % 10 = 0
               /\ Abs(LastUpdate.height - parse_height(row.tag).v) <= 5
               /\ row.tag.v = <<"1", "2", "m">> => LastUpdate.height = 1200
        /\ LastUpdate.source = "osm_levels" =>
               /\ LastUpdate.height = row.levels.v * 300
               /\ row.levels.v = 4 => LastUpdate.height = 1200

\* scenarios A and B have both been stored
C3_Witness ==
    /\ Len(batch_updates) = 2
    /\ batch_updates[1] = [height |-> 1200, source |-> "osm_height", id |-> 1]
    /\ batch_updates[2] = [height |-> 1200, source |-> "osm_levels", id |-> 2]
    /\ row.tag = None /\ row.levels = [k |-> "Int", v |-> 4]

\* C19: a failure while sampling the nDSM for one footprint (geometry that
\* does not decode, a failing mask or read, no positive non-nodata pixel) is
\* never fatal: the building gets the default height with the default
\* provenance, and the loop goes on.
SamplingFails(r) ==
    /\ TriesNdsm(r)
    /\ \/ ~r.geom.decodes
       \/ r.geom.fails
       \/ Len(ValidPixels(r.geom)) = 0
C19_SamplingFailureFallsToDefault ==
    processed > 0 /\ SamplingFails(row) =>
        /\ hpc # "crashed"
        /\ Len(batch_updates) = processed
        /\ batch_updates[processed] =
              [height |-> Round1(Clamp(DefaultHeight)), source |-> "default",
               id |-> processed]
        /\ hpc = "loop" /\ processed < MaxBuildings => ENABLED ProcessBuilding

\* the second of two rows failed its read, and both rows were committed
C19_Witness ==
    /\ hpc = "done" /\ processed = 2 /\ Len(db) = 2
    /\ SamplingFails(row) /\ row.geom.fails

(***************************************************************************)
(* ----------------------------------------------------------------------- *)
(* Stages 57 / 60: building envelope synthesis                             *)
(* ----------------------------------------------------------------------- *)
(* x, y are local coordinates in decimetres, z is in millimetres.          *)
(* A mesh is [vertices, faces]: faces hold 0-based vertex indices, as in   *)
(* the source; vertices are never merged (process=False).                  *)
(***************************************************************************)
NoMesh == [vertices |-> <<>>, faces |-> <<>>]

\* polygon_2d / exterior_coords: the ring without its closing point
RingNext(n, i) == (i % n) + 1

\* twice the signed area (shoelace), dm^2; positive for a CCW ring
Area2(ring) ==
    LET n == Len(ring)
        term[i \in 0..n] ==
            IF i = 0 THEN 0
            ELSE term[i - 1] + ring[i][1] * ring[RingNext(n, i)][2]
                             - ring[RingNext(n, i)][1] * ring[i][2]
    IN  term[n]

\* poly.is_empty or poly.area < 1 (1 m^2 = 100 dm^2)
TooSmall(ring) == Abs(Area2(ring)) < 200

\* one quad per boundary edge: bottom-left, bottom-right, top-right, top-left
WallVertices(ring, z_bottom, z_top) ==
    LET n == Len(ring)
        quad(i) == <<
            <<ring[i][1], ring[i][2], z_bottom>>,
            <<ring[RingNext(n, i)][1], ring[RingNext(n, i)][2], z_bottom>>,
            <<ring[RingNext(n, i)][1], ring[RingNext(n, i)][2], z_top>>,
            <<ring[i][1], ring[i][2], z_top>> >>
        acc[i \in 0..n] == IF i = 0 THEN <<>> ELSE acc[i - 1] \o quad(i)
    IN  acc[n]

\* two triangles per wall quad
WallFaces(n) ==
    LET acc[i \in 0..n] ==
            IF i = 0 THEN <<>>
            ELSE LET v_idx == 4 * (i - 1)
                 IN  acc[i - 1] \o << <<v_idx, v_idx + 1, v_idx + 2>>,
                                      <<v_idx, v_idx + 2, v_idx + 3>> >>
    IN  acc[n]

\* the ring repeated at one elevation (roof cap / eave vertices)
CapVertices(ring, z) == [i \in 1..Len(ring) |-> <<ring[i][1], ring[i][2], z>>]

\* shapely.ops.triangulate(poly) on a convex ring of 3 or 4 vertices, mapped
\* back to ring indices: the Delaunay triangles of the vertex set.  Which
\* diagonal splits a quadrilateral and the orientation GEOS gives its
\* triangles are the library's choice (diag, cw).
Orient(t, cw) == IF cw THEN <<t[1], t[3], t[2]>> ELSE t
TriangulateRing(n, diag, cw) ==
    IF n = 3 THEN << Orient(<<0, 1, 2>>, cw) >>
    ELSE IF diag = 0
         THEN << Orient(<<0, 1, 2>>, cw), Orient(<<0, 2, 3>>, cw) >>
         ELSE << Orient(<<1, 2, 3>>, cw), Orient(<<1, 3, 0>>, cw) >>

Shift(tris, base) ==
    [t \in 1..Len(tris) |-> <<tris[t][1] + base, tris[t][2] + base, tris[t][3] + base>>]

\* 60_generate_meshes.py extrude_building_with_uvs: walls + flat cap
extrude_building_with_uvs(ring, height, ground_z, diag, cw) ==
    IF Len(ring) < 3 \/ TooSmall(ring) THEN NoMesh
    ELSE LET n == Len(ring)
             roof_start_idx == 4 * n
         IN  [vertices |-> WallVertices(ring, ground_z, ground_z + height)
                            \o CapVertices(ring, ground_z + height),
              faces |-> WallFaces(n)
                            \o Shift(TriangulateRing(n, diag, cw), roof_start_idx)]

\* 57_procedural_detail.py create_box_building: walls + flat roof
create_box_building(exterior_coords, ground_z, height, diag, cw) ==
    IF Len(exterior_coords) < 3 THEN NoMesh
    ELSE LET n == Len(exterior_coords)
             roof_start_idx == 4 * n
             roof_z == ground_z + height
         IN  [vertices |-> WallVertices(exterior_coords, ground_z, roof_z)
                            \o CapVertices(exterior_coords, roof_z),
              faces |-> WallFaces(n)
                            \o Shift(TriangulateRing(n, diag, cw), roof_start_idx)]

\* poly.centroid: area centroid of the ring (dm)
Centroid(ring) ==
    LET n == Len(ring)
        cr(i) == ring[i][1] * ring[RingNext(n, i)][2]
                   - ring[RingNext(n, i)][1] * ring[i][2]
        sx[i \in 0..n] == IF i = 0 THEN 0
                          ELSE sx[i - 1] + (ring[i][1] + ring[RingNext(n, i)][1]) * cr(i)
        sy[i \in 0..n] == IF i = 0 THEN 0
                          ELSE sy[i - 1] + (ring[i][2] + ring[RingNext(n, i)][2]) * cr(i)
    IN  <<sx[n] \div (3 * Area2(ring)), sy[n] \div (3 * Area2(ring))>>

\* integer square root (floor)
RECURSIVE ISqrtFrom(_, _)
ISqrtFrom(v, r) == IF (r + 1) * (r + 1) > v THEN r ELSE ISqrtFrom(v, r + 1)
ISqrt(v) == ISqrtFrom(v, 0)

\* np.tan(np.radians(pitch_deg)) in thousandths, for the pitches of
\* get_roof_pitch
TanMilli(pitch_deg) ==
    CASE pitch_deg = 20 -> 364
      [] pitch_deg = 35 -> 700
      [] pitch_deg = 45 -> 1000
      [] OTHER -> 577

\* average distance of the ring vertices to the centroid, mm
AvgDist(ring, c) ==
    LET n == Len(ring)
        d(i) == 100 * ISqrt((ring[i][1] - c[1]) * (ring[i][1] - c[1])
                          + (ring[i][2] - c[2]) * (ring[i][2] - c[2]))
        acc[i \in 0..n] == IF i = 0 THEN 0 ELSE acc[i - 1] + d(i)
    IN  acc[n] \div n

\* roof_height = min(avg_dist * tan(pitch) * 0.5, wall_height * 0.6), mm
SimpleRoofHeight(ring, wall_height, pitch_deg) ==
    Min2((AvgDist(ring, Centroid(ring)) * TanMilli(pitch_deg)) \div 2000,
         (wall_height * 6) \div 10)

\* 57_procedural_detail.py create_simple_pitched_building: walls + hip roof
\* to a single peak above the centroid
create_simple_pitched_building(exterior_coords, ground_z, wall_height, pitch_deg) ==
    IF Len(exterior_coords) < 3 \/ TooSmall(exterior_coords) THEN NoMesh
    ELSE LET n == Len(exterior_coords)
             c == Centroid(exterior_coords)
             roof_z == ground_z + wall_height
             peak_z == roof_z + SimpleRoofHeight(exterior_coords, wall_height, pitch_deg)
             peak_idx == 4 * n
             eave_start_idx == 4 * n + 1
             roof[i \in 1..n] == <<eave_start_idx + (i - 1),
                                   eave_start_idx + (i % n), peak_idx>>
         IN  [vertices |-> WallVertices(exterior_coords, ground_z, roof_z)
                            \o << <<c[1], c[2], peak_z>> >>
                            \o CapVertices(exterior_coords, roof_z),
              faces |-> WallFaces(n) \o roof]

\* ---- gabled builder ---------------------------------------------------------
\* n^2 times the covariance terms of np.cov(centered.T), up to the common factor
Coord(ring, k) == [i \in 1..Len(ring) |-> ring[i][k]]
SeqTotal(xs) ==
    LET acc[i \in 0..Len(xs)] == IF i = 0 THEN 0 ELSE acc[i - 1] + xs[i]
    IN  acc[Len(xs)]
Cov(ring, j, k) ==
    LET n == Len(ring)
        sj == SeqTotal(Coord(ring, j))
        sk == SeqTotal(Coord(ring, k))
    IN  SeqTotal([i \in 1..n |-> (n * ring[i][j] - sj) * (n * ring[i][k] - sk)])

\* rings whose covariance matrix is diagonal: the principal axes of
\* np.linalg.eigh are then the coordinate axes
AxisAligned(ring) == Cov(ring, 1, 2) = 0

\* the axis of the larger eigenvalue (1 = x, 2 = y); with equal eigenvalues the
\* order is the library's
PrimaryAxes(ring) ==
    IF Cov(ring, 1, 1) > Cov(ring, 2, 2) THEN {1}
    ELSE IF Cov(ring, 2, 2) > Cov(ring, 1, 1) THEN {2}
    ELSE {1, 2}

\* 57_procedural_detail.py compute_obb on an axis-aligned ring.  axis is the
\* primary axis, sgn the sign eigh gives the primary eigenvector (angle 0 or
\* pi, pi/2 or -pi/2).  Extents and the centre are kept doubled to stay exact.
compute_obb(coords, axis, sgn) ==
    LET lo(k) == SetMin({coords[i][k] : i \in 1..Len(coords)})
        hi(k) == SetMax({coords[i][k] : i \in 1..Len(coords)})
        other == 3 - axis
    IN  [center2 |-> <<lo(1) + hi(1), lo(2) + hi(2)>>,
         width2 |-> hi(axis) - lo(axis),
         depth2 |-> hi(other) - lo(other),
         axis |-> axis, sgn |-> sgn,
         ridge_start |-> IF sgn = 1 THEN lo(axis) ELSE hi(axis),
         ridge_end |-> IF sgn = 1 THEN hi(axis) ELSE lo(axis)]

\* roof_height = min(half_depth * tan(pitch), wall_height * 0.7), mm
\* (lines 353-354)
GableRoofHeight(obb, wall_height, pitch_deg) ==
    Min2((obb.depth2 * 100 * TanMilli(pitch_deg)) \div 2000,
         (wall_height * 7) \div 10)

\* a point given by its coordinate along the ridge axis and across it
AxisPoint(axis, along, across) ==
    IF axis = 1 THEN <<along, across>> ELSE <<across, along>>

\* vertex_sides: sign of the dot product with the perpendicular of the ridge
VertexSide(obb, pt) ==
    LET dot == IF obb.axis = 1 THEN obb.sgn * (2 * pt[2] - obb.center2[2])
               ELSE -obb.sgn * (2 * pt[1] - obb.center2[1])
    IN  IF dot > 0 THEN 1 ELSE IF dot < 0 THEN -1 ELSE 0

\* 57_procedural_detail.py create_pitched_roof_building: walls, two ridge
\* vertices, the eave ring, then one triangle per boundary edge (slope edge to
\* its own ridge point, gable edge to the nearer ridge end)
create_pitched_roof_building(exterior_coords, ground_z, wall_height, pitch_deg, axis, sgn) ==
    IF Len(exterior_coords) < 3 THEN NoMesh
    ELSE LET n == Len(exterior_coords)
             obb == compute_obb(exterior_coords, axis, sgn)
             across == obb.center2[3 - axis] \div 2
             roof_z == ground_z + wall_height
             ridge_z == roof_z + GableRoofHeight(obb, wall_height, pitch_deg)
             ridge_start_idx == 4 * n
             eave_start_idx == 4 * n + 2
             RidgeVertex(along) ==
                 LET q == AxisPoint(axis, along, across)
                 IN  <<q[1], q[2], ridge_z>>
             base == WallVertices(exterior_coords, ground_z, roof_z)
                       \o << RidgeVertex(obb.ridge_start), RidgeVertex(obb.ridge_end) >>
                       \o CapVertices(exterior_coords, roof_z)
             side(i) == VertexSide(obb, exterior_coords[i])
             mid2(i, k) == exterior_coords[i][k] + exterior_coords[RingNext(n, i)][k]
             d2(i, along) ==
                 (mid2(i, axis) - 2 * along) * (mid2(i, axis) - 2 * along)
               + (mid2(i, 3 - axis) - obb.center2[3 - axis])
                   * (mid2(i, 3 - axis) - obb.center2[3 - axis])
             eave1(i) == eave_start_idx + (i - 1)
             eave2(i) == eave_start_idx + (i % n)
             acc[i \in 0..n] ==
                 IF i = 0 THEN [v |-> base, f |-> WallFaces(n)]
                 ELSE LET p == acc[i - 1]
                      IN  IF side(i) = side(RingNext(n, i)) /\ side(i) # 0
                          THEN IF obb.width2 > 0
                               THEN [v |-> Append(p.v, RidgeVertex(mid2(i, axis) \div 2)),
                                     f |-> Append(p.f,
                                             IF side(i) > 0
                                             THEN <<eave1(i), eave2(i), Len(p.v)>>
                                             ELSE <<eave2(i), eave1(i), Len(p.v)>>)]
                               ELSE p
                          ELSE IF side(i) # side(RingNext(n, i))
                          THEN [v |-> p.v,
                                f |-> Append(p.f,
                                        <<eave1(i), eave2(i),
                                          IF d2(i, obb.ridge_start) < d2(i, obb.ridge_end)
                                          THEN ridge_start_idx
                                          ELSE ridge_start_idx + 1>>)]
                          ELSE p
         IN  [vertices |-> acc[n].v, faces |-> acc[n].f]

\* ---- mesh predicates --------------------------------------------------------
Pos(m, f, k) == m.vertices[m.faces[f][k] + 1]

\* the three edges of face f, each the set of its endpoint positions
FaceEdges(m, f) == { {Pos(m, f, 1), Pos(m, f, 2)},
                     {Pos(m, f, 2), Pos(m, f, 3)},
                     {Pos(m, f, 3), Pos(m, f, 1)} }
MeshEdges(m) == UNION {FaceEdges(m, f) : f \in 1..Len(m.faces)}
EdgeUse(m, e) == Cardinality({f \in 1..Len(m.faces) : e \in FaceEdges(m, f)})

Watertight(m) == \A e \in MeshEdges(m) : EdgeUse(m, e) = 2

Det3(a, b, c) ==
      a[1] * (b[2] * c[3] - b[3] * c[2])
    - a[2] * (b[1] * c[3] - b[3] * c[1])
    + a[3] * (b[1] * c[2] - b[2] * c[1])

\* six times the signed volume enclosed by the faces
SignedVolume6(m) ==
    LET acc[f \in 0..Len(m.faces)] ==
            IF f = 0 THEN 0
            ELSE acc[f - 1] + Det3(Pos(m, f, 1), Pos(m, f, 2), Pos(m, f, 3))
    IN  acc[Len(m.faces)]

\* ---- inputs -----------------------------------------------------------------
\* bound: largest footprint coordinate, dm
MaxCoord == 60

Footprints == {
    << <<0, 0>>, <<MaxCoord, 0>>, <<MaxCoord, MaxCoord>>, <<0, MaxCoord>> >>,
    << <<0, 0>>, <<0, MaxCoord>>, <<MaxCoord, MaxCoord>>, <<MaxCoord, 0>> >>,
    << <<0, 0>>, <<MaxCoord, 0>>, <<0, 30>> >>,
    << <<-30, -20>>, <<30, -20>>, <<20, 20>>, <<-20, 20>> >>,
    << <<0, 0>>, <<5, 0>>, <<5, 5>>, <<0, 5>> >>,
    << <<0, 0>>, <<MaxCoord, 0>> >>
}
EnvHeights == {2500, 6000, 12000}
GroundZs == {0, 1500}
Pitches == {20, 35, 45}

NoEnvelope == [builder |-> "none", ring |-> <<>>, height |-> 0, ground_z |-> 0,
               wall_height |-> 0, mesh |-> NoMesh]

EnvelopeStart == envelope = NoEnvelope

EnvelopeOthers == <<hvars, rvars, tvars, pvars, ovars, avars>>

ExtrudeBuildingWithUvs ==
    /\ \E ring \in Footprints, h \in EnvHeights, g \in GroundZs,
          diag \in {0, 1}, cw \in BOOLEAN :
         envelope' = [builder |-> "extrude", ring |-> ring, height |-> h,
                      ground_z |-> g, wall_height |-> h,
                      mesh |-> extrude_building_with_uvs(ring, h, g, diag, cw)]
    /\ UNCHANGED EnvelopeOthers

CreateBoxBuilding ==
    /\ \E ring \in Footprints, h \in EnvHeights, g \in GroundZs,
          diag \in {0, 1}, cw \in BOOLEAN :
         /\ Len(ring) >= 3 /\ ~TooSmall(ring)   \* extrude_detailed_building 625-638
         /\ envelope' = [builder |-> "box", ring |-> ring, height |-> h,
                         ground_z |-> g, wall_height |-> h,
                         mesh |-> create_box_building(ring, g, h, diag, cw)]
    /\ UNCHANGED EnvelopeOthers

CreateSimplePitchedBuilding ==
    /\ \E ring \in Footprints, h \in EnvHeights, g \in GroundZs, p \in Pitches :
         /\ Len(ring) >= 3 /\ ~TooSmall(ring)
         /\ envelope' = [builder |-> "pitched", ring |-> ring, height |-> h,
                         ground_z |-> g, wall_height |-> (h * 8) \div 10,
                         mesh |-> create_simple_pitched_building(
                                      ring, g, (h * 8) \div 10, p)]
    /\ UNCHANGED EnvelopeOthers

\* create_pitched_roof_building has no check of the ring's area
CreatePitchedRoofBuilding ==
    /\ \E ring \in Footprints, w \in EnvHeights, g \in GroundZs, p \in Pitches,
          sgn \in {1, -1} :
         /\ Len(ring) >= 3 /\ AxisAligned(ring)
         /\ \E axis \in PrimaryAxes(ring) :
              envelope' = [builder |-> "gabled", ring |-> ring, height |-> w,
                           ground_z |-> g, wall_height |-> w,
                           mesh |-> create_pitched_roof_building(
                                        ring, g, w, p, axis, sgn)]
    /\ UNCHANGED EnvelopeOthers

NextEnvelope ==
    \/ ExtrudeBuildingWithUvs
    \/ CreateBoxBuilding
    \/ CreateSimplePitchedBuilding
    \/ CreatePitchedRoofBuilding


(***************************************************************************)
(* Claims on the envelope synthesizers (checked under SpecEnvelope)        *)
(***************************************************************************)
\* C4: every synthesized envelope (flat-roof extrusion, box building, hip
\* building, gabled building) is watertight - each edge, identified by the
\* positions of its endpoints, is shared by exactly two triangles - and its
\* signed volume is positive.
C4_WatertightOutward ==
    envelope.mesh # NoMesh =>
        /\ Watertight(envelope.mesh)
        /\ SignedVolume6(envelope.mesh) > 0

\* the ridge or peak height above the wall top, mm
RoofRise(e) ==
    SetMax({e.mesh.vertices[i][3] : i \in 1..Len(e.mesh.vertices)})
        - (e.ground_z + e.wall_height)

\* C27: every pitched roof synthesized (gabled with a ridge, or hipped to a
\* single peak) rises above the wall top by at most 60% of the wall height.
C27_RoofRiseAtMost60Percent ==
    envelope.builder \in {"pitched", "gabled"} /\ envelope.mesh # NoMesh =>
        10 * RoofRise(envelope) <= 6 * envelope.wall_height


(***************************************************************************)
(* ----------------------------------------------------------------------- *)
(* Stage 60: ribbon meshes                                                 *)
(* ----------------------------------------------------------------------- *)
(* All lengths in millimetres.  U is held in thousandths, V is 0 or 1.     *)
(***************************************************************************)
\* settings["roads"], settings["railways"], settings["water"] as generated
\* by twin_config; settings has no "waterways" section
width_primary_m == 8000
width_secondary_m == 7000
width_tertiary_m == 6000
width_residential_m == 5000
width_service_m == 4000
width_footway_m == 2000
width_cycleway_m == 2500
width_default_m == 4000
road_elevation_offset_m == 1000
railway_width_m == 3500
railway_elevation_offset_m == 800
water_elevation_offset_m == 300

get_road_width(highway_type) ==
    CASE highway_type \in {"primary", "primary_link", "trunk", "trunk_link"}
            -> width_primary_m
      [] highway_type \in {"secondary", "secondary_link"} -> width_secondary_m
      [] highway_type \in {"tertiary", "tertiary_link"} -> width_tertiary_m
      [] highway_type \in {"residential", "unclassified"} -> width_residential_m
      [] highway_type \in {"service", "track"} -> width_service_m
      [] highway_type \in {"footway", "path", "pedestrian", "steps"}
            -> width_footway_m
      [] highway_type = "cycleway" -> width_cycleway_m
      [] OTHER -> width_default_m

get_waterway_width(waterway_type) ==
    CASE waterway_type = "river" -> 15000
      [] waterway_type = "canal" -> 10000
      [] waterway_type = "stream" -> 3000
      [] waterway_type = "brook" -> 2000
      [] waterway_type = "drain" -> 2000
      [] waterway_type = "ditch" -> 1500
      [] OTHER -> 3000

\* texture tile length along the ribbon, metres
TILE_LENGTH == 10
\* segments shorter than 0.01 m are skipped
MinSegment == 10

\* segment_length = sqrt(dx**2 + dy**2) of segment i (points i, i+1)
SegDx(coords, i) == coords[i + 1][1] - coords[i][1]
SegDy(coords, i) == coords[i + 1][2] - coords[i][2]
RECURSIVE SqrtFrom(_, _, _)
SqrtFrom(v, lo, hi) ==
    IF lo >= hi THEN lo
    ELSE LET mid == (lo + hi + 1) \div 2
         IN  IF mid * mid <= v THEN SqrtFrom(v, mid, hi) ELSE SqrtFrom(v, lo, mid - 1)
Sqrt(v) == SqrtFrom(v, 0, 40000)
SegmentLength(coords, i) ==
    Sqrt(SegDx(coords, i) * SegDx(coords, i) + SegDy(coords, i) * SegDy(coords, i))

HalfWidth_Full(width) == width
HalfWidth(width) == width \div 2

\* perpendicular vector (direction rotated by 90 degrees), half_width long
PerpX(coords, i, half_width) ==
    ((-SegDy(coords, i)) * half_width) \div SegmentLength(coords, i)
PerpY(coords, i, half_width) ==
    (SegDx(coords, i) * half_width) \div SegmentLength(coords, i)

NoRibbon == [vertices |-> <<>>, faces |-> <<>>, uvs |-> <<>>]

\* cumulative_distance += segment_length
Advance_Stuck(cumulative_distance, segment_length) == cumulative_distance
Advance_Twice(cumulative_distance, segment_length) ==
    cumulative_distance + 2 * segment_length
Advance(cumulative_distance, segment_length) == cumulative_distance + segment_length

\* the loop of create_ribbon_mesh from segment i on; m is the mesh so far
\* and cumulative_distance the length of the segments emitted so far
RECURSIVE RibbonLoop(_, _, _, _, _, _, _)
RibbonLoop(coords, elevations, half_width, z_offset, i, m, cumulative_distance) ==
    IF i > Len(coords) - 1 THEN m
    ELSE LET segment_length == SegmentLength(coords, i)
             x1 == coords[i][1]
             y1 == coords[i][2]
             x2 == coords[i + 1][1]
             y2 == coords[i + 1][2]
             z1 == elevations[i] + z_offset
             z2 == elevations[i + 1] + z_offset
             px == PerpX(coords, i, half_width)
             py == PerpY(coords, i, half_width)
             v_idx == Len(m.vertices)
             u1 == cumulative_distance \div TILE_LENGTH
             u2 == (cumulative_distance + segment_length) \div TILE_LENGTH
         IN  IF segment_length < MinSegment
             THEN RibbonLoop(coords, elevations, half_width, z_offset, i + 1, m,
                             cumulative_distance)
             ELSE RibbonLoop(coords, elevations, half_width, z_offset, i + 1,
                    [vertices |-> m.vertices \o <<
                         <<x1 - px, y1 - py, z1>>,
                         <<x1 + px, y1 + py, z1>>,
                         <<x2 + px, y2 + py, z2>>,
                         <<x2 - px, y2 - py, z2>> >>,
                     faces |-> m.faces \o << <<v_idx, v_idx + 1, v_idx + 2>>,
                                             <<v_idx, v_idx + 2, v_idx + 3>> >>,
                     uvs |-> m.uvs \o << <<u1, 0>>, <<u1, 1>>, <<u2, 1>>, <<u2, 0>> >>],
                    Advance(cumulative_distance, segment_length))

\* create_ribbon_mesh; NoRibbon stands for the None result
create_ribbon_mesh(coords, elevations, width, z_offset) ==
    IF Len(coords) < 2 THEN NoRibbon
    ELSE RibbonLoop(coords, elevations, HalfWidth(width), z_offset, 1, NoRibbon, 0)

\* ---- inputs -----------------------------------------------------------------
\* bound: points of a polyline
MaxPoints == 4

Steps == { <<3000, 4000>>, <<10000, 0>>, <<0, -6000>>, <<5, 0>>, <<0, 0>> }
StartPoint == <<-2000, 1000>>

RECURSIVE Polylines(_)
Polylines(n) ==
    IF n = 1 THEN { <<StartPoint>> }
    ELSE { Append(c, <<c[Len(c)][1] + st[1], c[Len(c)][2] + st[2]>>) :
             c \in Polylines(n - 1), st \in Steps }
AllPolylines == UNION {Polylines(n) : n \in 1..MaxPoints}

\* ground elevation of a point, sampled from the DTM
get_ground_elevation(pt) == IF pt[1] > 0 THEN 2000 + (pt[2] \div 10) ELSE 0
ElevationsOf(coords) == [i \in 1..Len(coords) |-> get_ground_elevation(coords[i])]

HighwayTypes == {"primary", "residential", "cycleway", "steps", "bridleway"}
WaterwayTypes == {"river", "ditch", "weir"}

Features ==
    [kind : {"road"}, type : HighwayTypes, coords : AllPolylines]
    \cup [kind : {"railway"}, type : {"rail"}, coords : AllPolylines]
    \cup [kind : {"waterway"}, type : WaterwayTypes, coords : AllPolylines]

\* the width and z-offset each generator passes to create_ribbon_mesh
FeatureWidth(f) ==
    CASE f.kind = "road" -> get_road_width(f.type)
      [] f.kind = "railway" -> railway_width_m
      [] OTHER -> get_waterway_width(f.type)
FeatureOffset(f) ==
    CASE f.kind = "road" -> road_elevation_offset_m
      [] f.kind = "railway" -> railway_elevation_offset_m
      [] OTHER -> water_elevation_offset_m

Pending == [built |-> FALSE, mesh |-> NoRibbon]
RibbonStart == feature \in Features /\ ribbon = Pending
RibbonIdle == feature = [kind |-> "none", type |-> "none", coords |-> <<>>]
                 /\ ribbon = Pending

RibbonOthers == <<hvars, evars, tvars, pvars, ovars, avars>>

\* generate_road_meshes lines 638-667 for one feature
RoadRibbon ==
    /\ feature.kind = "road" /\ ~ribbon.built
    /\ ribbon' = [built |-> TRUE,
                  mesh |-> create_ribbon_mesh(feature.coords,
                               ElevationsOf(feature.coords),
                               get_road_width(feature.type),
                               road_elevation_offset_m)]
    /\ UNCHANGED <<feature, RibbonOthers>>

\* generate_railway_meshes lines 712-736 for one feature
RailwayRibbon ==
    /\ feature.kind = "railway" /\ ~ribbon.built
    /\ ribbon' = [built |-> TRUE,
                  mesh |-> create_ribbon_mesh(feature.coords,
                               ElevationsOf(feature.coords),
                               railway_width_m, railway_elevation_offset_m)]
    /\ UNCHANGED <<feature, RibbonOthers>>

\* generate_waterway_meshes lines 815-844 for one feature
WaterwayRibbon ==
    /\ feature.kind = "waterway" /\ ~ribbon.built
    /\ ribbon' = [built |-> TRUE,
                  mesh |-> create_ribbon_mesh(feature.coords,
                               ElevationsOf(feature.coords),
                               get_waterway_width(feature.type),
                               water_elevation_offset_m)]
    /\ UNCHANGED <<feature, RibbonOthers>>

NextRibbon == RoadRibbon \/ RailwayRibbon \/ WaterwayRibbon


(***************************************************************************)
(* Claims on the ribbon generator (checked under SpecRibbon)               *)
(***************************************************************************)
SegmentsOf(coords) == 1..(Len(coords) - 1)
NoShortSegment(coords) ==
    \A i \in SegmentsOf(coords) : SegmentLength(coords, i) >= MinSegment
TotalLength(coords) ==
    LET acc[i \in 0..(Len(coords) - 1)] ==
            IF i = 0 THEN 0 ELSE acc[i - 1] + SegmentLength(coords, i)
    IN  acc[Len(coords) - 1]
RibbonUs(m) == {m.uvs[j][1] : j \in 1..Len(m.uvs)}
MaxU(m) == CHOOSE u \in RibbonUs(m) : \A w \in RibbonUs(m) : w <= u
FullRibbon ==
    ribbon.built /\ Len(feature.coords) >= 2 /\ NoShortSegment(feature.coords)

EmittedSegments(coords) ==
    SelectSeq([i \in SegmentsOf(coords) |-> i],
              LAMBDA i : SegmentLength(coords, i) >= MinSegment)
QuadVertex(m, k, c) == m.vertices[4 * (k - 1) + c]

\* C9: the four vertices of every emitted quad are coplanar - two at the
\* start point's elevation plus z-offset, two at the end point's, opposite
\* sides equal and parallel - and each vertex is displaced from its polyline
\* point, perpendicular to the segment, by exactly half the width configured
\* for the feature's category.
C9_QuadGeometry ==
    ribbon.built =>
      LET m == ribbon.mesh
          c == feature.coords
          em == EmittedSegments(c)
          w == FeatureWidth(feature)
          z(i) == get_ground_elevation(c[i]) + FeatureOffset(feature)
          off(v, pt) == <<v[1] - pt[1], v[2] - pt[2]>>
          half(o, i) ==
              /\ o[1] * SegDx(c, i) + o[2] * SegDy(c, i) = 0
              /\ 4 * (o[1] * o[1] + o[2] * o[2]) = w * w
      IN  /\ Len(m.vertices) = 4 * Len(em)
          /\ \A k \in 1..Len(em) :
               LET i == em[k]
                   v0 == QuadVertex(m, k, 1)
                   v1 == QuadVertex(m, k, 2)
                   v2 == QuadVertex(m, k, 3)
                   v3 == QuadVertex(m, k, 4)
               IN  /\ v0[3] = z(i) /\ v1[3] = z(i)
                   /\ v2[3] = z(i + 1) /\ v3[3] = z(i + 1)
                   /\ <<v1[1] - v0[1], v1[2] - v0[2], v1[3] - v0[3]>>
                        = <<v2[1] - v3[1], v2[2] - v3[2], v2[3] - v3[3]>>
                   /\ half(off(v0, c[i]), i) /\ half(off(v1, c[i]), i)
                   /\ half(off(v2, c[i + 1]), i) /\ half(off(v3, c[i + 1]), i)

\* a ribbon with a quad on a sloping diagonal segment
C9_Witness ==
    /\ ribbon.built
    /\ Len(ribbon.mesh.vertices) >= 4
    /\ \E k \in 1..(Len(ribbon.mesh.vertices) \div 4) :
         /\ QuadVertex(ribbon.mesh, k, 1)[3] # QuadVertex(ribbon.mesh, k, 3)[3]
         /\ QuadVertex(ribbon.mesh, k, 1)[1] # QuadVertex(ribbon.mesh, k, 2)[1]
         /\ QuadVertex(ribbon.mesh, k, 1)[2] # QuadVertex(ribbon.mesh, k, 2)[2]

\* the U and V of corner c of the k-th quad of the mesh
QuadU(m, k, c) == m.uvs[4 * (k - 1) + c][1]
QuadV(m, k, c) == m.uvs[4 * (k - 1) + c][2]
\* the length of the first k emitted segments
EmittedLength(coords, k) ==
    LET em == EmittedSegments(coords)
        acc[j \in 0..k] ==
            IF j = 0 THEN 0 ELSE acc[j - 1] + SegmentLength(coords, em[j])
    IN  acc[k]

CeilDiv(a, b) == (a + b - 1) \div b

\* lines 146-149: nodata replaced by 0 (sea level)
FillNodata_Keep(v, nodata) == v
FillNodata(v, nodata) == IF ~IsNone(nodata) /\ v = nodata.v THEN 0 ELSE v

\* dtm[::simplify, ::simplify] after the nodata replacement
SmallRows(ra, simplify) == CeilDiv(ra.h, simplify)
SmallCols(ra, simplify) == CeilDiv(ra.w, simplify)
SmallAt(ra, simplify, r, c) ==
    FillNodata(ra.data[(r - 1) * simplify + 1][(c - 1) * simplify + 1], ra.nodata)

\* the window of chunk (ci, cj): world bounds and clamped pixel indices
\* (0-based, upper bound exclusive) into the downsampled grid
Window(ra, chunk_size, simplify, ci, cj) ==
    LET maxx == ra.minx + ra.w
        maxy == ra.miny + ra.h
        cx_min == ra.minx + ci * chunk_size
        cy_min == ra.miny + cj * chunk_size
        cx_max == Min2(cx_min + chunk_size, maxx)
        cy_max == Min2(cy_min + chunk_size, maxy)
    IN  [cx_min |-> cx_min, cy_min |-> cy_min, cx_max |-> cx_max, cy_max |-> cy_max,
         px_min |-> Max2(0, (cx_min - ra.minx) \div simplify),
         px_max |-> Min2(SmallCols(ra, simplify), (cx_max - ra.minx) \div simplify),
         py_min |-> Max2(0, (maxy - cy_max) \div simplify),
         py_max |-> Min2(SmallRows(ra, simplify), (maxy - cy_min) \div simplify)]

WindowRows(wd) == wd.py_max - wd.py_min
WindowCols(wd) == wd.px_max - wd.px_min

\* lines 188-195, 243-244: windows without pixels or without faces are skipped
WindowEmitted(wd) ==
    /\ ~(wd.px_max <= wd.px_min \/ wd.py_max <= wd.py_min)
    /\ 2 * (WindowRows(wd) - 1) * (WindowCols(wd) - 1) # 0

\* the mesh of an emitted window: the corner positions of the vertex grid
\* in local coordinates, the elevations row by row, and the face count
TerrainChunk(ra, chunk_size, origin, simplify, ci, cj) ==
    LET wd == Window(ra, chunk_size, simplify, ci, cj)
        rows == WindowRows(wd)
        cols == WindowCols(wd)
    IN  [key |-> <<ci, cj>>,
         rows |-> rows, cols |-> cols,
         x_min |-> wd.cx_min - origin[1], x_max |-> wd.cx_max - origin[1],
         y_min |-> wd.cy_min - origin[2], y_max |-> wd.cy_max - origin[2],
         z |-> [n \in 1..(rows * cols) |->
                   SmallAt(ra, simplify, wd.py_min + ((n - 1) \div cols) + 1,
                                         wd.px_min + ((n - 1) % cols) + 1)],
         faces |-> 2 * (rows - 1) * (cols - 1)]

ChunkCols(ra, chunk_size) == CeilDiv(ra.w, chunk_size)
ChunkRows(ra, chunk_size) == CeilDiv(ra.h, chunk_size)

\* generate_terrain_mesh: the dictionary of chunks, as the set of its values
generate_terrain_mesh(ra, chunk_size, origin, simplify) ==
    { TerrainChunk(ra, chunk_size, origin, simplify, ci, cj) :
        <<ci, cj>> \in { k \in (0..(ChunkCols(ra, chunk_size) - 1))
                                \X (0..(ChunkRows(ra, chunk_size) - 1)) :
                         WindowEmitted(Window(ra, chunk_size, simplify, k[1], k[2])) } }

\* ---- inputs -----------------------------------------------------------------
TERRAIN_NODATA == -9999
\* bound: raster height in pixels
RasterH == 2
RasterWidths == {4, 5}
Samples == {TERRAIN_NODATA, 3}
TerrainChunkSizes == {2, 3}
Simplifies == {1, 2}

Rasters ==
    UNION { [w : {w}, h : {RasterH}, minx : {100}, miny : {200},
             nodata : {Some(TERRAIN_NODATA)},
             data : [1..RasterH -> [1..w -> Samples]]] : w \in RasterWidths }

NoRaster == [w |-> 0, h |-> 0, minx |-> 0, miny |-> 0, nodata |-> None, data |-> <<>>]
TerrainOrigin(ra) == <<ra.minx + 2, ra.miny + 1>>

TerrainStart ==
    /\ raster \in [ra : Rasters, chunk_size : TerrainChunkSizes, simplify : Simplifies]
    /\ terrain = [built |-> FALSE, chunks |-> {}]
TerrainIdle ==
    /\ raster = [ra |-> NoRaster, chunk_size |-> 1, simplify |-> 1]
    /\ terrain = [built |-> FALSE, chunks |-> {}]

TerrainOthers == <<hvars, evars, rvars, pvars, ovars, avars>>

\* main lines 1215-1219: one call of generate_terrain_mesh
GenerateTerrainMesh ==
    /\ ~terrain.built
    /\ raster.ra # NoRaster
    /\ terrain' = [built |-> TRUE,
                   chunks |-> generate_terrain_mesh(raster.ra, raster.chunk_size,
                                  TerrainOrigin(raster.ra), raster.simplify)]
    /\ UNCHANGED <<raster, TerrainOthers>>

NextTerrain == GenerateTerrainMesh

(***************************************************************************)
(* Claims on the terrain mesher (checked under SpecTerrain)                *)
(***************************************************************************)
AllWindows ==
    (0..(ChunkCols(raster.ra, raster.chunk_size) - 1))
        \X (0..(ChunkRows(raster.ra, raster.chunk_size) - 1))
WindowOf(k) == Window(raster.ra, raster.chunk_size, raster.simplify, k[1], k[2])
\* the raw samples of the downsampled grid that fall in window k
WindowSamples(k) ==
    { raster.ra.data[(r - 1) * raster.simplify + 1][(c - 1) * raster.simplify + 1] :
        <<r, c>> \in ((WindowOf(k).py_min + 1)..WindowOf(k).py_max)
                        \X ((WindowOf(k).px_min + 1)..WindowOf(k).px_max) }
AllNodata(k) == WindowSamples(k) = {raster.ra.nodata.v}
KeysOf(chunks) == {c.key : c \in chunks}
ChunkAt(k) == CHOOSE c \in terrain.chunks : c.key = k

\* C10 (as stated): a chunk window whose samples are all nodata gives no
\* chunk; chunks with zero usable pixels never appear in the output.
C10_NodataWindowOmitted ==
    terrain.built =>
        \A k \in AllWindows : AllNodata(k) => k \notin KeysOf(terrain.chunks)

\* C10 (amended): a window gives no chunk exactly when it holds fewer than
\* two rows or two columns of samples (no triangle can be formed); nodata
\* counts as a sample of elevation 0, so a window whose samples are all
\* nodata is emitted as a flat chunk at elevation 0.
C10_EmptyWindowOmitted ==
    terrain.built =>
        \A k \in AllWindows :
            /\ k \in KeysOf(terrain.chunks)
                 <=> (WindowRows(WindowOf(k)) >= 2 /\ WindowCols(WindowOf(k)) >= 2)
            /\ (k \in KeysOf(terrain.chunks) /\ AllNodata(k)) =>
                 \A n \in 1..Len(ChunkAt(k).z) : ChunkAt(k).z[n] = 0
            /\ k \in KeysOf(terrain.chunks) =>
                 \A n \in 1..Len(ChunkAt(k).z) : ChunkAt(k).z[n] # TERRAIN_NODATA

\* one run with an all-nodata window emitted flat and another window omitted
C10_Witness ==
    /\ terrain.built
    /\ \E k \in AllWindows : AllNodata(k) /\ k \in KeysOf(terrain.chunks)
    /\ \E k \in AllWindows : k \notin KeysOf(terrain.chunks)

(***************************************************************************)
(* ----------------------------------------------------------------------- *)
(* Stages 60 / 70: the scene -- chunking, saving and packing               *)
(* ----------------------------------------------------------------------- *)
(* Positions and representative points are local coordinates (relative to  *)
(* the origin) in millimetres.  A chunk key is the character string the    *)
(* code formats, held as a sequence of characters.                         *)
(***************************************************************************)
\* bound: settings["terrain"]["chunk_size_m"] of the modelled scene, metres
SceneChunkSize == 8
chunk_size_mm == SceneChunkSize * 1000

\* Python's a // b for b > 0 (rounds toward minus infinity), then int()
FloorDiv_Trunc(a, b) == IF a >= 0 THEN a \div b ELSE -((-a) \div b)
FloorDiv(a, b) == a \div b

\* str(n)
RECURSIVE NatChars(_)
NatChars(n) ==
    IF n < 10 THEN <<DigitSeq[n + 1]>>
    ELSE NatChars(n \div 10) \o <<DigitSeq[(n % 10) + 1]>>
FormatInt(n) == IF n < 0 THEN <<"-">> \o NatChars(-n) ELSE NatChars(n)

\* chunk_key = f"{chunk_x}_{chunk_y}"
ChunkKey(chunk_x, chunk_y) == FormatInt(chunk_x) \o <<"_">> \o FormatInt(chunk_y)

\* A representative point is the rational <<x_num, y_num, den>>.
\* chunk_x = int(x // chunk_size), chunk_y = int(y // chunk_size)
ChunkOf(pt) ==
    ChunkKey(FloorDiv(pt[1], pt[3] * chunk_size_mm),
             FloorDiv(pt[2], pt[3] * chunk_size_mm))

\* chunk_id.split("_")
RECURSIVE Split(_)
Split(s) ==
    IF \A p \in 1..Len(s) : s[p] # "_" THEN <<s>>
    ELSE LET p == CHOOSE q \in 1..Len(s) :
                      s[q] = "_" /\ \A r \in 1..(q - 1) : s[r] # "_"
         IN  <<SubSeq(s, 1, p - 1)>> \o Split(SubSeq(s, p + 1, Len(s)))

\* int(text): an optional sign and at least one digit, else ValueError (None)
IntOf(t) ==
    LET signed == t # <<>> /\ Head(t) \in {"-", "+"}
        ds == IF signed THEN Tail(t) ELSE t
    IN  IF ds = <<>> \/ \E p \in 1..Len(ds) : ds[p] \notin DigitChars THEN None
        ELSE Some(IF Head(t) = "-" THEN -DigitsValue(ds) ELSE DigitsValue(ds))

\* sorted(): strings compare character by character, a prefix first
CharOrd(c) ==
    CASE c = "-" -> 45
      [] c = "." -> 46
      [] c \in DigitChars -> 48 + DigitValue(c)
      [] c = "_" -> 95
      [] OTHER -> 0
RECURSIVE LexLess(_, _)
LexLess(a, b) ==
    IF a = <<>> THEN b # <<>>
    ELSE IF b = <<>> THEN FALSE
    ELSE IF Head(a) = Head(b) THEN LexLess(Tail(a), Tail(b))
    ELSE CharOrd(Head(a)) < CharOrd(Head(b))
RECURSIVE Sorted(_)
Sorted(S) ==
    IF S = {} THEN <<>>
    ELSE LET m == CHOOSE x \in S : \A y \in S \ {x} : LexLess(x, y)
         IN  <<m>> \o Sorted(S \ {m})

\* ---- dictionaries chunk key -> list ------------------------------------------
EmptyDict == [k \in {} |-> <<>>]

\* if chunk_key not in meshes_by_chunk: ... = []; ...[chunk_key].append(mesh)
Put(d, k, v) ==
    [q \in DOMAIN d \cup {k} |->
        IF q = k THEN (IF k \in DOMAIN d THEN Append(d[k], v) ELSE <<v>>) ELSE d[q]]

\* main lines 1267-1273: waterway lists extend the water-body lists
Merge_Overwrite(d, e) ==
    [q \in DOMAIN d \cup DOMAIN e |-> IF q \in DOMAIN e THEN e[q] ELSE d[q]]
Merge(d, e) ==
    [q \in DOMAIN d \cup DOMAIN e |->
        (IF q \in DOMAIN d THEN d[q] ELSE <<>>) \o (IF q \in DOMAIN e THEN e[q] ELSE <<>>)]

\* save_meshes: one file per chunk key with a non-empty list, holding the
\* concatenation of the list; files of other keys stay as they were
save_meshes(meshes, dir) ==
    LET written == {q \in DOMAIN meshes : meshes[q] # <<>>}
    IN  [q \in DOMAIN dir \cup written |->
            IF q \in written THEN meshes[q] ELSE dir[q]]

\* ---- fragments ----------------------------------------------------------------
\* what the model keeps of one mesh: the point its chunk was chosen from,
\* the x, y positions of its vertices, its face count, its osm_id and the
\* value of the '_global_id' vertex attribute, if its vertices carry one
Fragment(kind, pt, xy, faces, osm_id) ==
    [kind |-> kind, pt |-> pt, xy |-> xy, faces |-> faces, osm_id |-> osm_id,
     gid |-> None]

XY(vertices, scale) ==
    { <<vertices[i][1] * scale, vertices[i][2] * scale>> : i \in 1..Len(vertices) }

\* sum(c[a] for c in coords) over the ring with its closing point
ClosedSum(ring, a) ==
    LET acc[i \in 0..Len(ring)] == IF i = 0 THEN 0 ELSE acc[i - 1] + ring[i][a]
    IN  acc[Len(ring)] + ring[1][a]

\* generate_building_meshes lines 479-482: the mean of the ring's points
\* (the projection is taken as linear over one footprint); ring in dm
BuildingCentre(ring) ==
    <<ClosedSum(ring, 1) * 100, ClosedSum(ring, 2) * 100, Len(ring) + 1>>

PointOf(pt) == <<pt[1] \div pt[3], pt[2] \div pt[3]>>

\* lines 485-489: the flat-roofed envelope of one feature.  Neither the
\* positions nor the face count depend on how the cap is triangulated.
BuildingMesh(f) ==
    IF IsNone(f.geom) THEN NoMesh
    ELSE extrude_building_with_uvs(f.geom.v, f.height,
             get_ground_elevation(PointOf(BuildingCentre(f.geom.v))), 0, FALSE)

BuildingFragment(f) ==
    Fragment("building", BuildingCentre(f.geom.v), XY(BuildingMesh(f).vertices, 100),
             Len(BuildingMesh(f).faces), f.osm_id)

\* lines 671-672: mid_idx = len(local_coords) // 2 (0-based)
MidPoint(coords) ==
    <<coords[(Len(coords) \div 2) + 1][1], coords[(Len(coords) \div 2) + 1][2], 1>>

RibbonMesh(f, width, z_offset) ==
    create_ribbon_mesh(f.coords, ElevationsOf(f.coords), width, z_offset)

RibbonFragment(kind, f, width, z_offset) ==
    Fragment(kind, MidPoint(f.coords), XY(RibbonMesh(f, width, z_offset).vertices, 1),
             Len(RibbonMesh(f, width, z_offset).faces), 0)

\* create_polygon_mesh: a thin extrusion of the ring flattened to z; None
\* (NoMesh) for fewer than 3 points or an area under 1 m^2.  Ring in dm.
create_polygon_mesh(coords, z) ==
    IF Len(coords) < 3 \/ TooSmall(coords) THEN NoMesh
    ELSE LET n == Len(coords)
             side(i) == << <<i - 1, RingNext(n, i) - 1, n + RingNext(n, i) - 1>>,
                           <<i - 1, n + RingNext(n, i) - 1, n + i - 1>> >>
             sides[i \in 0..n] == IF i = 0 THEN <<>> ELSE sides[i - 1] \o side(i)
             cap == [t \in 1..(n - 2) |-> <<0, t, t + 1>>]
         IN  [vertices |-> CapVertices(coords, z) \o CapVertices(coords, z),
              faces |-> cap \o Shift(cap, n) \o sides[n]]

\* bound: half of settings["aoi"]["side_length_m"], metres
AoiHalfSide == 16
\* main line 1212: aoi_bounds, dm
aoi_min == -(AoiHalfSide * 10)
aoi_max == AoiHalfSide * 10
InsideAoi(ring) ==
    \A i \in 1..Len(ring) : /\ aoi_min <= ring[i][1] /\ ring[i][1] <= aoi_max
                            /\ aoi_min <= ring[i][2] /\ ring[i][2] <= aoi_max

\* generate_water_meshes lines 962-965: the mean of the clipped ring's points
\* with its closing point.  A ring inside the AOI box is clipped to itself;
\* the vertex exterior.coords starts and ends at is the geometry library's
\* choice (start).
WaterCentre(ring, start) ==
    <<(ClosedSum(ring, 1) - ring[1][1] + ring[start][1]) * 100,
      (ClosedSum(ring, 2) - ring[1][2] + ring[start][2]) * 100, Len(ring) + 1>>

WaterMesh(ring) ==
    create_polygon_mesh(ring, get_ground_elevation(PointOf(BuildingCentre(ring)))
                                  + water_elevation_offset_m)

WaterFragment(ring, start) ==
    Fragment("water", WaterCentre(ring, start), XY(WaterMesh(ring).vertices, 100),
             Len(WaterMesh(ring).faces), 0)

\* ---- extents --------------------------------------------------------------------
Extent(xy) ==
    [min_x |-> SetMin({p[1] : p \in xy}), min_y |-> SetMin({p[2] : p \in xy}),
     max_x |-> SetMax({p[1] : p \in xy}), max_y |-> SetMax({p[2] : p \in xy})]
ExtentCentre(xy) ==
    <<Extent(xy).min_x + Extent(xy).max_x, Extent(xy).min_y + Extent(xy).max_y, 2>>

\* ---- terrain ----------------------------------------------------------------------
\* main line 1219: simplify=4
TerrainSimplify == 4

\* a DTM covering the AOI, one pixel per metre, flat at 3 m
SceneRaster ==
    [w |-> 2 * AoiHalfSide, h |-> 2 * AoiHalfSide, minx |-> 100, miny |-> 200,
     nodata |-> Some(TERRAIN_NODATA),
     data |-> [r \in 1..(2 * AoiHalfSide) |-> [c \in 1..(2 * AoiHalfSide) |-> 3]]]
\* load_aoi_centre: the origin is the centre of the AOI
SceneOrigin == <<SceneRaster.minx + AoiHalfSide, SceneRaster.miny + AoiHalfSide>>

\* a terrain chunk as a fragment: the corners of its vertex grid.  Its key
\* is not chosen from a point; pt is the centre of the grid.
TerrainFragment(c) ==
    LET xy == { <<x * 1000, y * 1000>> : x \in {c.x_min, c.x_max},
                                           y \in {c.y_min, c.y_max} }
    IN  Fragment("terrain", ExtentCentre(xy), xy, c.faces, 0)

\* generate_terrain_mesh line 246: chunks[f"{ci}_{cj}"] = mesh
TerrainDict(cs) ==
    [q \in {ChunkKey(c.key[1], c.key[2]) : c \in cs} |->
        <<TerrainFragment(CHOOSE c \in cs : ChunkKey(c.key[1], c.key[2]) = q)>>]

\* ---- sea ----------------------------------------------------------------------------
\* a coastline feature: [place, line, coords]; coords in dm
Reverse(s) == [i \in 1..Len(s) |-> s[Len(s) + 1 - i]]
LineLength(coords) ==
    LET acc[i \in 0..(Len(coords) - 1)] ==
            IF i = 0 THEN 0
            ELSE acc[i - 1] + Sqrt((coords[i + 1][1] - coords[i][1]) * (coords[i + 1][1] - coords[i][1])
                                  + (coords[i + 1][2] - coords[i][2]) * (coords[i + 1][2] - coords[i][2]))
    IN  acc[Len(coords) - 1]

\* lines 1007-1025: mainland LineStrings of at least two points
IsMainland_AnyPlace(f) == f.line /\ Len(f.coords) >= 2
IsMainland(f) == f.place \notin {"island", "islet"} /\ f.line /\ Len(f.coords) >= 2
CoastlineSegments_KeepIslands(coast) ==
    LET acc[i \in 0..Len(coast)] ==
            IF i = 0 THEN <<>>
            ELSE IF coast[i].line /\ Len(coast[i].coords) >= 2
                 THEN Append(acc[i - 1], coast[i].coords)
            ELSE acc[i - 1]
    IN  acc[Len(coast)]
CoastlineSegments(coast) ==
    LET acc[i \in 0..Len(coast)] ==
            IF i = 0 THEN <<>>
            ELSE IF IsMainland(coast[i]) THEN Append(acc[i - 1], coast[i].coords)
            ELSE acc[i - 1]
    IN  acc[Len(coast)]

\* shapely.ops.linemerge: two lines are sewn into one where they share an
\* end point that no third line ends at; lines that share no such point
\* stay apart.  Which of a sewn line's ends comes first is the library's
\* choice; SeaRing builds the same polygon from either.
Join(a, b) ==
    IF a[Len(a)] = b[1] THEN a \o Tail(b)
    ELSE IF b[Len(b)] = a[1] THEN b \o Tail(a)
    ELSE IF a[Len(a)] = b[Len(b)] THEN a \o Tail(Reverse(b))
    ELSE Reverse(a) \o Tail(b)
EndDegree(lines, p) ==
    Cardinality({ ie \in (1..Len(lines)) \X {1, 2} :
                    (IF ie[2] = 1 THEN lines[ie[1]][1]
                     ELSE lines[ie[1]][Len(lines[ie[1]])]) = p })
Joinable(lines, i, j) ==
    /\ i < j
    /\ lines[i][1] # lines[i][Len(lines[i])]
    /\ lines[j][1] # lines[j][Len(lines[j])]
    /\ \E p \in {lines[i][1], lines[i][Len(lines[i])]}
                  \cap {lines[j][1], lines[j][Len(lines[j])]} :
          EndDegree(lines, p) = 2
RECURSIVE LineMerge(_)
LineMerge(lines) ==
    LET pairs == { ij \in (1..Len(lines)) \X (1..Len(lines)) :
                     Joinable(lines, ij[1], ij[2]) }
    IN  IF pairs = {} THEN lines
        ELSE LET ij == CHOOSE x \in pairs :
                          \A y \in pairs : x[1] < y[1] \/ (x[1] = y[1] /\ x[2] <= y[2])
                 rest == SelectSeq([k \in 1..Len(lines) |->
                                      IF k = ij[1] THEN Join(lines[ij[1]], lines[ij[2]])
                                      ELSE IF k = ij[2] THEN <<>> ELSE lines[k]],
                                   LAMBDA l : l # <<>>)
             IN  LineMerge(rest)

\* lines 1035-1037: max(merged.geoms, key=length) keeps the first longest
Longest(lines) ==
    lines[CHOOSE i \in 1..Len(lines) :
            /\ \A j \in 1..Len(lines) : LineLength(lines[j]) <= LineLength(lines[i])
            /\ \A j \in 1..(i - 1) : LineLength(lines[j]) < LineLength(lines[i])]

\* lines 1044-1049: coastline, then the two corners on the east boundary
SeaRing(coast_coords) ==
    coast_coords \o << <<aoi_max, coast_coords[Len(coast_coords)][2]>>,
                       <<aoi_max, coast_coords[1][2]>> >>

\* generate_sea_mesh: {} (EmptyDict) or {"0_0": mesh}
generate_sea_mesh(coast) ==
    IF CoastlineSegments(coast) = <<>> THEN EmptyDict
    ELSE LET ring == SeaRing(Longest(LineMerge(CoastlineSegments(coast))))
             xy == XY(create_polygon_mesh(ring, 0).vertices, 100)
         IN  IF TooSmall(ring) THEN EmptyDict
             ELSE [q \in {<<"0", "_", "0">>} |->
                     <<Fragment("sea", ExtentCentre(xy), xy,
                                Len(create_polygon_mesh(ring, 0).faces), 0)>>]

\* ---- inputs ---------------------------------------------------------------------------
\* bound: features the generator loops consume in one run
MaxFeatures == 2

\* a 2 m square footprint with its south-west corner at (x, y), dm
Square(x, y) == << <<x, y>>, <<x + 20, y>>, <<x + 20, y + 20>>, <<x, y + 20>> >>

SceneBuildings ==
    { [geom |-> Some(Square(-30, -10)), height |-> 6000, osm_id |-> 11],
      [geom |-> Some(Square(-50, -40)), height |-> 6000, osm_id |-> 17],
      [geom |-> Some(Square(10, 10)), height |-> 6000, osm_id |-> 12],
      [geom |-> Some(Square(-100, 70)), height |-> 6000, osm_id |-> 0],
      [geom |-> Some(<< <<0, 0>>, <<5, 0>>, <<5, 5>>, <<0, 5>> >>), height |-> 6000,
       osm_id |-> 15],
      [geom |-> None, height |-> 6000, osm_id |-> 16],
      [geom |-> Some(<<>>), height |-> 6000, osm_id |-> 18] }

ScenePolylines ==
    { << <<-5000, 1000>>, <<-1000, 1000>> >>,
      << <<-1000, -1000>>, <<3000, -1000>>, <<9000, -1000>> >>,
      << <<1000, 1000>>, <<1000, 1005>> >>,
      << <<1000, 1000>> >> }

SceneRoads == [type : {"residential"}, coords : ScenePolylines]
SceneRailways == [type : {"rail"}, coords : ScenePolylines]
SceneWaterways == [type : {"stream"}, coords : ScenePolylines]
SceneWaterBodies ==
    { Square(-60, 20), Square(70, -90),
      << <<0, 0>>, <<5, 0>>, <<5, 5>>, <<0, 5>> >> }

Mainland(coords) == [place |-> "none", line |-> TRUE, coords |-> coords]
Island(coords) == [place |-> "island", line |-> TRUE, coords |-> coords]
Islet(coords) == [place |-> "islet", line |-> TRUE, coords |-> coords]
NotALine(coords) == [place |-> "none", line |-> FALSE, coords |-> coords]
SceneCoasts ==
    { << Island(<< <<100, 0>>, <<110, 10>> >>), Islet(<< <<90, 50>>, <<95, 55>> >>) >>,
      << NotALine(<< <<10, 0>>, <<10, 50>> >>), Mainland(<< <<10, 0>> >>) >>,
      << Mainland(<< <<20, -100>>, <<40, -40>> >>),
         Islet(<< <<40, -40>>, <<45, -30>> >>),
         Mainland(<< <<50, 0>>, <<30, 120>> >>) >>,
      << Mainland(<< <<0, -150>>, <<10, -100>> >>),
         Mainland(<< <<20, 0>>, <<10, 50>>, <<20, 100>> >>),
         Mainland(<< <<10, -100>>, <<5, -90>> >>) >> }

AssetDirs == {"terrain", "buildings", "buildings_detailed", "buildings_textured",
              "roads", "railways", "water", "sea", "footprints"}

NoManifest == [written |-> FALSE, origin |-> None, aoi |-> None, assets |-> <<>>]
NotRead == [k |-> "NotRead"]

\* success = 0, failed = 0 at the head of a generator; taken counts the
\* features its for loop has handed to the body
NoCounts == [success |-> 0, failed |-> 0, taken |-> 0]
Taken(c) == [c EXCEPT !.taken = @ + 1]
Success(c) == [c EXCEPT !.success = @ + 1]
Failed(c) == [c EXCEPT !.failed = @ + 1]

SceneStart ==
    /\ stage = "terrain"
    /\ nfeatures = 0
    /\ meshes_by_chunk = EmptyDict
    /\ water_chunks = EmptyDict
    /\ processed_dir = [d \in AssetDirs |-> EmptyDict]
    /\ buildings_metadata = EmptyDict
    /\ manifest = NoManifest
    /\ coast_file = NotRead
    /\ counts = NoCounts
    /\ buildings_geojson = <<>>
    /\ footprints_metadata = EmptyDict

SceneOthers == <<hvars, evars, rvars, tvars, ovars, avars>>

\* ---- stage 60 main --------------------------------------------------------------------
\* lines 1215-1221
GenerateTerrain ==
    /\ stage = "terrain"
    /\ processed_dir' = [processed_dir EXCEPT !["terrain"] =
           save_meshes(TerrainDict(generate_terrain_mesh(SceneRaster, SceneChunkSize,
                                       SceneOrigin, TerrainSimplify)), @)]
    /\ stage' = "buildings"
    /\ UNCHANGED <<nfeatures, meshes_by_chunk, water_chunks, buildings_metadata,
                   manifest, coast_file, counts, buildings_geojson, footprints_metadata, SceneOthers>>

\* generate_building_meshes lines 470-503: one feature
\* a ring without points: sum(...) / len(coords_wgs84) raises
\* ZeroDivisionError (lines 479-480) and the stage ends there
AddBuilding ==
    /\ stage = "buildings" /\ nfeatures < MaxFeatures
    /\ \E f \in SceneBuildings :
         /\ buildings_geojson' = Append(buildings_geojson, f)
         /\ IF ~IsNone(f.geom) /\ Len(f.geom.v) = 0
            THEN /\ stage' = "aborted"
                 /\ counts' = Taken(counts)
                 /\ UNCHANGED meshes_by_chunk
            ELSE /\ stage' = stage
                 /\ IF IsNone(f.geom) \/ Len(BuildingMesh(f).vertices) = 0
                    THEN /\ meshes_by_chunk' = meshes_by_chunk
                         /\ counts' = Failed(Taken(counts))
                    ELSE /\ meshes_by_chunk' =
                               Put(meshes_by_chunk, ChunkOf(BuildingCentre(f.geom.v)),
                                   BuildingFragment(f))
                         /\ counts' = Success(Taken(counts))
    /\ nfeatures' = nfeatures + 1
    /\ UNCHANGED <<water_chunks, processed_dir, buildings_metadata, manifest,
                   coast_file, footprints_metadata, SceneOthers>>

\* save_building_meshes_with_metadata: global ids run over the chunks in
\* sorted key order; each chunk gets a face map and one file
GlobalIdBase(meshes, keys, i) ==
    LET acc[j \in 0..(i - 1)] ==
            IF j = 0 THEN 0 ELSE acc[j - 1] + Len(meshes[keys[j]])
    IN  acc[i - 1]
StartFace_FromZero(lst, idx) == 0
StartFace(lst, idx) ==
    LET acc[j \in 0..(idx - 1)] == IF j = 0 THEN 0 ELSE acc[j - 1] + lst[j].faces
    IN  acc[idx - 1]
FaceMaps(meshes) ==
    LET keys == Sorted({q \in DOMAIN meshes : meshes[q] # <<>>})
    IN  [q \in {keys[i] : i \in 1..Len(keys)} |->
            LET i == CHOOSE j \in 1..Len(keys) : keys[j] = q
            IN  [idx \in 1..Len(meshes[q]) |->
                    [osm_id |-> meshes[q][idx].osm_id,
                     global_id |-> GlobalIdBase(meshes, keys, i) + idx - 1,
                     building_index |-> idx - 1,
                     start_face |-> StartFace(meshes[q], idx),
                     end_face |-> StartFace(meshes[q], idx) + meshes[q][idx].faces]]]

\* save_building_meshes_with_metadata lines 1141-1147: every vertex of a
\* building gets the building's global id before the chunk is combined
WithGlobalIds(meshes) ==
    [q \in DOMAIN meshes |->
        [idx \in 1..Len(meshes[q]) |->
            [meshes[q][idx] EXCEPT !.gid = Some(FaceMaps(meshes)[q][idx].global_id)]]]

\* lines 1228-1233
SaveBuildings ==
    /\ stage = "buildings"
    /\ processed_dir' = [processed_dir EXCEPT !["buildings"] =
                            save_meshes(WithGlobalIds(meshes_by_chunk), @)]
    /\ buildings_metadata' = FaceMaps(meshes_by_chunk)
    /\ meshes_by_chunk' = EmptyDict
    /\ stage' = "roads"
    /\ counts' = NoCounts
    /\ UNCHANGED <<nfeatures, water_chunks, manifest, coast_file, buildings_geojson, footprints_metadata, SceneOthers>>

\* the body shared by the three ribbon loops: lines 643-682, 717-751, 820-859
AddRibbon(kind, f, width, z_offset) ==
    IF Len(f.coords) < 2 \/ Len(RibbonMesh(f, width, z_offset).vertices) = 0
    THEN /\ meshes_by_chunk' = meshes_by_chunk
         /\ counts' = Failed(Taken(counts))
    ELSE /\ meshes_by_chunk' = Put(meshes_by_chunk, ChunkOf(MidPoint(f.coords)),
                                   RibbonFragment(kind, f, width, z_offset))
         /\ counts' = Success(Taken(counts))

\* generate_road_meshes lines 638-682: one feature
AddRoad ==
    /\ stage = "roads" /\ nfeatures < MaxFeatures
    /\ \E f \in SceneRoads :
         AddRibbon("road", f, get_road_width(f.type), road_elevation_offset_m)
    /\ nfeatures' = nfeatures + 1
    /\ UNCHANGED <<stage, water_chunks, processed_dir, buildings_metadata, manifest,
                   coast_file, buildings_geojson, footprints_metadata, SceneOthers>>

\* lines 1240-1244
SaveRoads ==
    /\ stage = "roads"
    /\ processed_dir' = [processed_dir EXCEPT !["roads"] = save_meshes(meshes_by_chunk, @)]
    /\ meshes_by_chunk' = EmptyDict
    /\ stage' = "railways"
    /\ counts' = NoCounts
    /\ UNCHANGED <<nfeatures, water_chunks, buildings_metadata, manifest, coast_file, buildings_geojson, footprints_metadata, SceneOthers>>

\* generate_railway_meshes lines 712-751: one feature
AddRailway ==
    /\ stage = "railways" /\ nfeatures < MaxFeatures
    /\ \E f \in SceneRailways :
         AddRibbon("railway", f, railway_width_m, railway_elevation_offset_m)
    /\ nfeatures' = nfeatures + 1
    /\ UNCHANGED <<stage, water_chunks, processed_dir, buildings_metadata, manifest,
                   coast_file, buildings_geojson, footprints_metadata, SceneOthers>>

\* lines 1251-1255
SaveRailways ==
    /\ stage = "railways"
    /\ processed_dir' = [processed_dir EXCEPT !["railways"] =
                            save_meshes(meshes_by_chunk, @)]
    /\ meshes_by_chunk' = EmptyDict
    /\ stage' = "water_load"
    /\ counts' = NoCounts
    /\ UNCHANGED <<nfeatures, water_chunks, buildings_metadata, manifest, coast_file, buildings_geojson, footprints_metadata, SceneOthers>>

\* generate_water_meshes lines 870-884: water.geojson is loaded and filtered
\* by f.get("geometry", {}).get("type"); a feature whose geometry is null
\* makes the filter raise AttributeError and the stage ends there
LoadWater ==
    /\ stage = "water_load"
    /\ \E null_geometry \in BOOLEAN :
          stage' = IF null_geometry THEN "aborted" ELSE "water"
    /\ UNCHANGED <<nfeatures, meshes_by_chunk, water_chunks, processed_dir,
                   buildings_metadata, manifest, coast_file, counts, buildings_geojson, footprints_metadata, SceneOthers>>

\* generate_water_meshes lines 894-975: one polygon lying inside the AOI box
AddWaterBody ==
    /\ stage = "water" /\ nfeatures < MaxFeatures
    /\ \E ring \in SceneWaterBodies, start \in 1..4 :
         /\ InsideAoi(ring) /\ start <= Len(ring)
         /\ IF TooSmall(ring) \/ Len(WaterMesh(ring).vertices) = 0
            THEN /\ meshes_by_chunk' = meshes_by_chunk
                 /\ counts' = Failed(Taken(counts))
            ELSE /\ meshes_by_chunk' =
                       Put(meshes_by_chunk, ChunkOf(WaterCentre(ring, start)),
                           WaterFragment(ring, start))
                 /\ counts' = Success(Taken(counts))
    /\ nfeatures' = nfeatures + 1
    /\ UNCHANGED <<stage, water_chunks, processed_dir, buildings_metadata, manifest,
                   coast_file, buildings_geojson, footprints_metadata, SceneOthers>>

\* generate_waterway_meshes lines 815-859: one feature; the first one follows
\* the return of generate_water_meshes (main lines 1262-1265)
AddWaterway ==
    /\ stage \in {"water", "waterways"} /\ nfeatures < MaxFeatures
    /\ \E f \in SceneWaterways :
         LET width == get_waterway_width(f.type)
             running == IF stage = "water" THEN EmptyDict ELSE meshes_by_chunk
             before == IF stage = "water" THEN NoCounts ELSE counts
         IN  IF Len(f.coords) < 2
                  \/ Len(RibbonMesh(f, width, water_elevation_offset_m).vertices) = 0
             THEN /\ meshes_by_chunk' = running
                  /\ counts' = Failed(Taken(before))
             ELSE /\ meshes_by_chunk' =
                        Put(running, ChunkOf(MidPoint(f.coords)),
                            RibbonFragment("waterway", f, width,
                                           water_elevation_offset_m))
                  /\ counts' = Success(Taken(before))
    /\ water_chunks' = IF stage = "water" THEN meshes_by_chunk ELSE water_chunks
    /\ stage' = "waterways"
    /\ nfeatures' = nfeatures + 1
    /\ UNCHANGED <<processed_dir, buildings_metadata, manifest, coast_file, buildings_geojson, footprints_metadata, SceneOthers>>

\* lines 1267-1277: merge the waterways into the water chunks and save
SaveWater ==
    /\ stage \in {"water", "waterways"}
    /\ processed_dir' = [processed_dir EXCEPT !["water"] =
           save_meshes(IF stage = "water" THEN meshes_by_chunk
                       ELSE Merge(water_chunks, meshes_by_chunk), @)]
    /\ meshes_by_chunk' = EmptyDict
    /\ water_chunks' = EmptyDict
    /\ stage' = "sea"
    /\ counts' = NoCounts
    /\ UNCHANGED <<nfeatures, buildings_metadata, manifest, coast_file, buildings_geojson, footprints_metadata, SceneOthers>>

\* lines 1282-1288
GenerateSea ==
    /\ stage = "sea"
    /\ \E c \in SceneCoasts :
         /\ coast_file' = Some(c)
         /\ processed_dir' = [processed_dir EXCEPT !["sea"] =
                                 save_meshes(generate_sea_mesh(c), @)]
    /\ stage' = "footprints"
    /\ UNCHANGED <<nfeatures, meshes_by_chunk, water_chunks, buildings_metadata,
                   manifest, counts, buildings_geojson, footprints_metadata, SceneOthers>>

\* lines 1282 and 1289-1290: no coast.geojson, no sea
SkipSea ==
    /\ stage = "sea"
    /\ coast_file' = None
    /\ stage' = "footprints"
    /\ UNCHANGED <<nfeatures, meshes_by_chunk, water_chunks, processed_dir,
                   buildings_metadata, manifest, counts, buildings_geojson, footprints_metadata, SceneOthers>>

\* ---- stage 65 main ------------------------------------------------------------------------
\* create_footprint_mesh: z_offset, mm
footprint_z_offset == 500

\* create_footprint_mesh: the thin extrusion of the ring flattened to the
\* ground under its centre; (None, 0) for fewer than 3 points or an area
\* under 1 m^2
FootprintMesh(f) ==
    IF IsNone(f.geom) THEN NoMesh
    ELSE create_polygon_mesh(f.geom.v,
             get_ground_elevation(PointOf(BuildingCentre(f.geom.v)))
                 + footprint_z_offset)

FootprintFragment(f) ==
    Fragment("footprint", BuildingCentre(f.geom.v), XY(FootprintMesh(f).vertices, 100),
             Len(FootprintMesh(f).faces), f.osm_id)

\* generate_footprints lines 168-209: the loop over enumerate(features);
\* ids holds the building_id that goes with each mesh of a chunk's list
FootprintLoop(features) ==
    LET acc[i \in 0..Len(features)] ==
            IF i = 0 THEN [meshes |-> EmptyDict, ids |-> EmptyDict]
            ELSE LET f == features[i]
                 IN  IF IsNone(f.geom) \/ Len(FootprintMesh(f).faces) = 0
                       THEN acc[i - 1]
                       ELSE [meshes |-> Put(acc[i - 1].meshes,
                                            ChunkOf(BuildingCentre(f.geom.v)),
                                            FootprintFragment(f)),
                             ids |-> Put(acc[i - 1].ids,
                                         ChunkOf(BuildingCentre(f.geom.v)), i - 1)]
    IN  acc[Len(features)]

\* lines 214-225: the face map of every chunk, in the order of its list
FootprintFaceMaps(meshes, ids) ==
    [q \in DOMAIN meshes |->
        [idx \in 1..Len(meshes[q]) |->
            [building_id |-> ids[q][idx],
             start_face |-> StartFace(meshes[q], idx),
             end_face |-> StartFace(meshes[q], idx) + meshes[q][idx].faces]]]

generate_footprints(features) ==
    [meshes |-> FootprintLoop(features).meshes,
     metadata |-> FootprintFaceMaps(FootprintLoop(features).meshes,
                                    FootprintLoop(features).ids)]

\* main lines 268-305 with save_footprint_meshes: run on the file the mesh
\* stage read
GenerateFootprints ==
    /\ stage = "footprints"
    /\ processed_dir' = [processed_dir EXCEPT !["footprints"] =
           save_meshes(generate_footprints(buildings_geojson).meshes, @)]
    /\ footprints_metadata' = generate_footprints(buildings_geojson).metadata
    /\ stage' = "pack"
    /\ UNCHANGED <<nfeatures, meshes_by_chunk, water_chunks, buildings_metadata,
                   manifest, coast_file, counts, buildings_geojson, SceneOthers>>

\* ---- stage 57 main ------------------------------------------------------------------------
\* generate_detailed_meshes and save_meshes of 57_procedural_detail.py, run
\* on the buildings the mesh stage read, for the chunks named by --chunks
\* (or all): the buildings of a target chunk are built again with detailed
\* roofs and combined as they are.  The model keeps a building's footprint
\* positions and face count for its detailed mesh.
DetailedFragment(frag) == [frag EXCEPT !.gid = None]
generate_detailed_meshes(buildings, target_chunks) ==
    [q \in DOMAIN buildings \cap target_chunks |->
        [idx \in 1..Len(buildings[q]) |-> DetailedFragment(buildings[q][idx])]]

\* --all, or --chunks naming one chunk
TargetChunks(keys) == {keys} \cup { {q} : q \in keys }
ProceduralDetail ==
    /\ stage = "pack"
    /\ processed_dir["buildings"] # EmptyDict
    /\ processed_dir["buildings_detailed"] = EmptyDict
    /\ \E target_chunks \in TargetChunks(DOMAIN processed_dir["buildings"]) :
          /\ processed_dir' = [processed_dir EXCEPT !["buildings_detailed"] =
                save_meshes(generate_detailed_meshes(processed_dir["buildings"],
                                                     target_chunks), @)]
    /\ UNCHANGED <<stage, nfeatures, meshes_by_chunk, water_chunks,
                   buildings_metadata, manifest, coast_file, counts, buildings_geojson, footprints_metadata, SceneOthers>>

\* ---- stage 70 main -----------------------------------------------------------------------
\* pack_assets lines 245-258: the box of a chunk id; None when the id does
\* not split into two integers (IndexError, ValueError)
BBoxOf_SlippedAxis(chunk_id, chunk_size) ==
    LET parts == Split(chunk_id)
    IN  IF Len(parts) < 2 \/ IsNone(IntOf(parts[1])) \/ IsNone(IntOf(parts[2])) THEN None
        ELSE Some([min_x |-> IntOf(parts[1]).v * chunk_size,
                   min_y |-> IntOf(parts[1]).v * chunk_size,
                   max_x |-> (IntOf(parts[1]).v + 1) * chunk_size,
                   max_y |-> (IntOf(parts[2]).v + 1) * chunk_size])
BBoxOf(chunk_id, chunk_size) ==
    LET parts == Split(chunk_id)
    IN  IF Len(parts) < 2 \/ IsNone(IntOf(parts[1])) \/ IsNone(IntOf(parts[2])) THEN None
        ELSE LET chunk_x == IntOf(parts[1]).v
                 chunk_y == IntOf(parts[2]).v
             IN  Some([min_x |-> chunk_x * chunk_size,
                       min_y |-> chunk_y * chunk_size,
                       max_x |-> (chunk_x + 1) * chunk_size,
                       max_y |-> (chunk_y + 1) * chunk_size])

\* final_file.stat().st_size: the model's measure of a stored file is its
\* container plus one unit per face; gzip keeps a file non-empty
FileSize(file, compress) ==
    LET acc[i \in 0..Len(file)] == IF i = 0 THEN 0 ELSE acc[i - 1] + file[i].faces
    IN  IF compress THEN 1 + (acc[Len(file)] \div 2) ELSE 1 + acc[Len(file)]

\* one manifest entry; dir names the processed directory the file came from,
\* url the file under assets/: its type prefix, chunk id and gzip suffix
AssetInfo(chunk_id, asset_type, dir, file, compress, chunk_size) ==
    [id |-> chunk_id, type |-> asset_type, dir |-> dir,
     url |-> [folder |-> "assets", prefix |-> asset_type, chunk |-> chunk_id,
              gz |-> compress],
     size_bytes |-> FileSize(file, compress),
     compressed |-> compress,
     bbox |-> BBoxOf(chunk_id, chunk_size)]

\* pack_assets: the files of one directory in sorted order
pack_assets_FirstOnly(files, asset_type, compress, chunk_size) ==
    LET ids == Sorted(DOMAIN files)
    IN  [i \in 1..Min2(1, Len(ids)) |->
            AssetInfo(ids[i], asset_type, asset_type, files[ids[i]], compress,
                      chunk_size)]
pack_assets(files, asset_type, compress, chunk_size) ==
    LET ids == Sorted(DOMAIN files)
    IN  [i \in 1..Len(ids) |->
            AssetInfo(ids[i], asset_type, asset_type, files[ids[i]], compress,
                      chunk_size)]

\* pack_buildings_hybrid: per chunk id, textured before detailed before original
pack_buildings_hybrid_DetailedFirst(textured, detailed, original, compress, chunk_size) ==
    LET ids == Sorted(DOMAIN textured \cup DOMAIN detailed \cup DOMAIN original)
        SourceDir(q) == IF q \in DOMAIN detailed THEN "buildings_detailed"
                        ELSE IF q \in DOMAIN textured THEN "buildings_textured"
                        ELSE "buildings"
        SourceFile(q) == IF q \in DOMAIN detailed THEN detailed[q]
                         ELSE IF q \in DOMAIN textured THEN textured[q]
                         ELSE original[q]
    IN  [i \in 1..Len(ids) |->
            AssetInfo(ids[i], "buildings", SourceDir(ids[i]), SourceFile(ids[i]),
                      compress, chunk_size)]
pack_buildings_hybrid(textured, detailed, original, compress, chunk_size) ==
    LET ids == Sorted(DOMAIN textured \cup DOMAIN detailed \cup DOMAIN original)
        SourceDir(q) == IF q \in DOMAIN textured THEN "buildings_textured"
                        ELSE IF q \in DOMAIN detailed THEN "buildings_detailed"
                        ELSE "buildings"
        SourceFile(q) == IF q \in DOMAIN textured THEN textured[q]
                         ELSE IF q \in DOMAIN detailed THEN detailed[q]
                         ELSE original[q]
    IN  [i \in 1..Len(ids) |->
            AssetInfo(ids[i], "buildings", SourceDir(ids[i]), SourceFile(ids[i]),
                      compress, chunk_size)]

\* settings["output"]["compress"], as generate_settings_yaml writes it
OutputCompress == FALSE

\* load_aoi_info: the properties of aoi.geojson; lengths in metres
aoi_info ==
    [centre_bng |-> SceneOrigin, centre_wgs84 |-> "centre_wgs84",
     side_length_m |-> 2 * AoiHalfSide]

\* generate_manifest
generate_manifest(assets, info) ==
    [written |-> TRUE,
     origin |-> Some([crs |-> "EPSG:27700", x |-> info.centre_bng[1],
                      y |-> info.centre_bng[2]]),
     aoi |-> Some([centre_wgs84 |-> info.centre_wgs84,
                   side_length_m |-> info.side_length_m]),
     assets |-> assets]

\* main lines 322-387 and 436-442: every directory packed with the terrain
\* chunk size, the manifest written
PackAssets ==
    /\ stage = "pack"
    /\ LET compress == OutputCompress
       IN manifest' = generate_manifest(
             pack_assets(processed_dir["terrain"], "terrain", compress, chunk_size_mm)
                 \o pack_buildings_hybrid(processed_dir["buildings_textured"],
                                          processed_dir["buildings_detailed"],
                                          processed_dir["buildings"], compress,
                                          chunk_size_mm)
                 \o pack_assets(processed_dir["roads"], "roads", compress,
                                chunk_size_mm)
                 \o pack_assets(processed_dir["railways"], "railways", compress,
                                chunk_size_mm)
                 \o pack_assets(processed_dir["water"], "water", compress,
                                chunk_size_mm)
                 \o pack_assets(processed_dir["sea"], "sea", compress, chunk_size_mm)
                 \o pack_assets(processed_dir["footprints"], "footprints", compress,
                                chunk_size_mm),
             aoi_info)
    /\ stage' = "done"
    /\ UNCHANGED <<nfeatures, meshes_by_chunk, water_chunks, processed_dir,
                   buildings_metadata, coast_file, counts, buildings_geojson, footprints_metadata, SceneOthers>>

\* ---- stage 70 on its own ---------------------------------------------------------------
\* 70_pack_assets.py run over processed directories as stages 60, 57 and 56
\* (56_texture_with_meshy.py, one buildings_<chunk>.glb per textured chunk)
\* can have left them: each of the three building directories holds the
\* files of any set of chunks
PackChunks == { ChunkKey(0, 0), ChunkKey(-1, 0), ChunkKey(1, -1) }
BuildingDirs == <<"buildings_textured", "buildings_detailed", "buildings">>
\* a chunk file of one building; the face count tells the directories apart
BuildingFile(d) ==
    << Fragment("building", <<0, 0, 1>>, {},
                CASE d = "buildings_textured" -> 30
                  [] d = "buildings_detailed" -> 20
                  [] OTHER -> 12,
                0) >>
PackStart ==
    /\ stage = "pack"
    /\ nfeatures = 0
    /\ meshes_by_chunk = EmptyDict
    /\ water_chunks = EmptyDict
    /\ \E present \in [1..3 -> SUBSET PackChunks] :
          processed_dir =
              [d \in AssetDirs |->
                  IF \E i \in 1..3 : BuildingDirs[i] = d
                    THEN LET i == CHOOSE j \in 1..3 : BuildingDirs[j] = d
                         IN  [q \in present[i] |-> BuildingFile(d)]
                    ELSE EmptyDict]
    /\ buildings_metadata = EmptyDict
    /\ manifest = NoManifest
    /\ coast_file = NotRead
    /\ counts = NoCounts
    /\ buildings_geojson = <<>>
    /\ footprints_metadata = EmptyDict
NextPack == PackAssets

\* 60_generate_meshes.py is started again over the same output directories
\* (main lines 1183-1213): nothing of what an earlier run saved is removed,
\* every dictionary of the new process starts empty.  MaxFeatures bounds the
\* features read over all the runs together.
Rerun ==
    /\ stage = "pack" /\ nfeatures < MaxFeatures
    /\ stage' = "terrain"
    /\ meshes_by_chunk' = EmptyDict
    /\ water_chunks' = EmptyDict
    /\ coast_file' = NotRead
    /\ counts' = NoCounts
    /\ buildings_geojson' = <<>>
    /\ UNCHANGED <<nfeatures, processed_dir, buildings_metadata, manifest,
                   footprints_metadata, SceneOthers>>

NextScene ==
    \/ GenerateTerrain
    \/ AddBuilding \/ SaveBuildings
    \/ AddRoad \/ SaveRoads
    \/ AddRailway \/ SaveRailways
    \/ LoadWater \/ AddWaterBody \/ AddWaterway \/ SaveWater
    \/ GenerateSea \/ SkipSea
    \/ GenerateFootprints
    \/ ProceduralDetail
    \/ PackAssets

\* mesh generation run any number of times, the features read changing
\* from run to run
NextRegenerate == NextScene \/ Rerun

(***************************************************************************)
(* Claims on chunking and packing (checked under SpecScene)                *)
(***************************************************************************)
\* the pair of integers a chunk key spells
KeyPair(id) == <<IntOf(Split(id)[1]).v, IntOf(Split(id)[2]).v>>

\* the rational point pt lies in the half-open cell k of the chunk grid
InCell(pt, k) ==
    \A a \in {1, 2} : /\ k[a] * chunk_size_mm * pt[3] <= pt[a]
                      /\ pt[a] < (k[a] + 1) * chunk_size_mm * pt[3]

SamePoint(p, q) == p[1] * q[3] = q[1] * p[3] /\ p[2] * q[3] = q[2] * p[3]

\* every fragment a dictionary or a saved file holds, with where it is held
Held(place, d) ==
    { [place |-> place, id |-> q, n |-> i, frag |-> d[q][i]] :
        <<q, i>> \in { qi \in (DOMAIN d) \X (1..MaxFeatures) : qi[2] <= Len(d[qi[1]]) } }
StoredFragments ==
    Held("running", meshes_by_chunk) \cup Held("water_chunks", water_chunks)
        \cup UNION { Held(d, processed_dir[d]) : d \in AssetDirs }

PointKinds == {"building", "road", "railway", "waterway", "water"}
PointFragments == { e \in StoredFragments : e.frag.kind \in PointKinds }
CellRange == (-3)..3

\* C5: the chunk key of a building, road, railway or water fragment is a
\* function of its representative point and the chunk size: fragments with
\* the same point carry the same key, and a fragment whose point lies in
\* [k*S, (k+1)*S) on both axes, k negative or not, carries the key "kx_ky".
C5_KeyIsFloorCell ==
    /\ \A e \in PointFragments :
          /\ Len(Split(e.id)) = 2
          /\ InCell(e.frag.pt, KeyPair(e.id))
          /\ \A k \in CellRange \X CellRange :
                InCell(e.frag.pt, k) => e.id = ChunkKey(k[1], k[2])
    /\ \A e1 \in PointFragments, e2 \in PointFragments :
          SamePoint(e1.frag.pt, e2.frag.pt) => e1.id = e2.id

\* two fragments with different points in one cell share its key, and a
\* fragment sits in a cell with a negative index
C5_Witness ==
    /\ \E e1 \in PointFragments, e2 \in PointFragments :
          /\ ~SamePoint(e1.frag.pt, e2.frag.pt)
          /\ e1.id = e2.id /\ e1.place = e2.place
    /\ \E e \in PointFragments : KeyPair(e.id)[1] < 0 /\ KeyPair(e.id)[2] < 0

\* C6: for every asset type, terrain and sea included, a fragment stored
\* under key (cx, cy) has its representative point inside
\* [cx*S, (cx+1)*S) x [cy*S, (cy+1)*S) in local coordinates.
C6_SameRuleAllTypes ==
    \A e \in StoredFragments : InCell(e.frag.pt, KeyPair(e.id))

\* the vertices of the combined mesh a manifest entry points at
FileOf(a) == processed_dir[a.dir][a.id]
FileXY(a) == UNION { FileOf(a)[i].xy : i \in 1..Len(FileOf(a)) }
ManifestAssets == { manifest.assets[i] : i \in 1..Len(manifest.assets) }

\* C7 (as stated): the box recorded for each chunk asset exactly bounds the
\* vertices of the chunk's combined mesh.
C7_BBoxExactlyBoundsVertices ==
    manifest.written =>
        \A a \in ManifestAssets : ~IsNone(a.bbox) /\ a.bbox.v = Extent(FileXY(a))

\* C7 (amended): the box recorded for each chunk asset is the grid cell of
\* its chunk key, a square of side S; for building, road, railway and water
\* chunks it contains the representative point of every fragment combined
\* into the chunk.
C7_BBoxIsKeyCell ==
    manifest.written =>
        \A a \in ManifestAssets :
            /\ ~IsNone(a.bbox)
            /\ a.bbox.v.max_x - a.bbox.v.min_x = chunk_size_mm
            /\ a.bbox.v.max_y - a.bbox.v.min_y = chunk_size_mm
            /\ a.bbox.v.min_x = KeyPair(a.id)[1] * chunk_size_mm
            /\ a.bbox.v.min_y = KeyPair(a.id)[2] * chunk_size_mm
            /\ \A i \in 1..Len(FileOf(a)) :
                 LET pt == FileOf(a)[i].pt
                 IN  FileOf(a)[i].kind \in PointKinds =>
                       /\ a.bbox.v.min_x * pt[3] <= pt[1]
                       /\ pt[1] < a.bbox.v.max_x * pt[3]
                       /\ a.bbox.v.min_y * pt[3] <= pt[2]
                       /\ pt[2] < a.bbox.v.max_y * pt[3]

\* a packed building chunk with a vertex outside its box and a packed
\* ribbon chunk whose box is wider than its vertices
C7_Witness ==
    /\ manifest.written
    /\ \E a \in ManifestAssets :
          /\ a.type = "buildings"
          /\ \E p \in FileXY(a) : p[1] < a.bbox.v.min_x \/ p[2] > a.bbox.v.max_y
    /\ \E a \in ManifestAssets :
          /\ a.type \in {"roads", "railways", "water"}
          /\ KeyPair(a.id)[1] # KeyPair(a.id)[2]
          /\ Extent(FileXY(a)).max_x < a.bbox.v.max_x

(***************************************************************************)
(* Claims on the sea resolver (checked under SpecScene)                    *)
(***************************************************************************)
SeaKey == <<"0", "_", "0">>
SeaProduced == SeaKey \in DOMAIN processed_dir["sea"]
SeaXY == processed_dir["sea"][SeaKey][1].xy

\* points (mm) of the coastline features that satisfy a test
FeaturePoints(c, Test(_)) ==
    UNION { { <<c[i].coords[n][1] * 100, c[i].coords[n][2] * 100>> :
                n \in 1..Len(c[i].coords) } : i \in {j \in 1..Len(c) : Test(c[j])} }
IsIsland(f) == f.place \in {"island", "islet"}
IsUsable(f) == ~IsIsland(f) /\ f.line /\ Len(f.coords) >= 2
LinePoints(l) == { <<l[n][1] * 100, l[n][2] * 100>> : n \in 1..Len(l) }
OnEastBoundary(v) == v[1] = aoi_max * 100

\* C11: the sea polygon is built from mainland coastline only: none of its
\* vertices is a point of an island or islet segment, every vertex off the
\* east boundary is a point of a mainland segment, and those vertices are
\* exactly the points of one connected chain of mainland segments that no
\* other connected chain exceeds in length.
C11_MainlandLongestChain ==
    (~IsNone(coast_file) /\ coast_file # NotRead /\ SeaProduced) =>
        LET c == coast_file.v
            chains == LineMerge(CoastlineSegments(c))
            used == { v \in SeaXY : ~OnEastBoundary(v) }
        IN  /\ SeaXY \cap FeaturePoints(c, IsIsland) = {}
            /\ used \subseteq FeaturePoints(c, IsUsable)
            /\ \E i \in 1..Len(chains) :
                  /\ LinePoints(chains[i]) = used
                  /\ \A j \in 1..Len(chains) :
                        LineLength(chains[j]) <= LineLength(chains[i])

\* a sea built from a coastline file holding an islet and two mainland
\* segments that do not connect
C11_Witness ==
    /\ ~IsNone(coast_file) /\ coast_file # NotRead /\ SeaProduced
    /\ \E i \in 1..Len(coast_file.v) : IsIsland(coast_file.v[i])
    /\ Len(CoastlineSegments(coast_file.v)) >= 2
    /\ Len(LineMerge(CoastlineSegments(coast_file.v))) >= 2

\* C13: the manifest lists every produced chunk asset exactly once: each
\* chunk file in the terrain, buildings, roads, railways, water and sea
\* directories has exactly one entry, carrying id, type, url, size_bytes and
\* bbox; no two entries share (type, id); the manifest carries the local
\* origin and the AOI metadata.
ChunkTypes == {"terrain", "buildings", "roads", "railways", "water", "sea"}
ProducedChunks(type) ==
    IF type = "buildings"
      THEN DOMAIN processed_dir["buildings_textured"]
             \cup DOMAIN processed_dir["buildings_detailed"]
             \cup DOMAIN processed_dir["buildings"]
      ELSE DOMAIN processed_dir[type]
EntriesOf(type, q) ==
    { i \in 1..Len(manifest.assets) :
        manifest.assets[i].type = type /\ manifest.assets[i].id = q }
PackagedBuildings ==
    { <<a.id, i>> : a \in { b \in ManifestAssets : b.type = "buildings" },
                    i \in 1..MaxFeatures }
PackagedBuilding(e) ==
    LET a == CHOOSE b \in ManifestAssets : b.type = "buildings" /\ b.id = e[1]
    IN  IF e[2] <= Len(FileOf(a)) THEN Some(FileOf(a)[e[2]]) ELSE None
C14_VerticesCarryBuildingIdentity ==
    manifest.written =>
        \A e1, e2 \in PackagedBuildings :
            ~IsNone(PackagedBuilding(e1)) /\ ~IsNone(PackagedBuilding(e2)) =>
                /\ ~IsNone(PackagedBuilding(e1).v.gid)
                /\ e1 # e2 => PackagedBuilding(e1).v.gid # PackagedBuilding(e2).v.gid

\* C15: a feature with invalid or degenerate geometry never aborts a
\* generator: it is placed in no chunk and counted as failed, the later
\* features are still processed, and success + failed is the number of
\* features the loop has examined.
C15_InvalidFeatureNeverAborts ==
    /\ stage # "aborted"
    /\ counts.success + counts.failed = counts.taken

\* C17: when the coastline file is missing, or holds no usable segment, or
\* only island and islet segments, no sea mesh is produced and the mesh
\* stage does not fail: it reaches its end, and the sea step leaves every
\* other asset directory and the building metadata as they were, whatever
\* the coastline file holds.
NoUsableCoast ==
    \/ IsNone(coast_file)
    \/ /\ coast_file # NotRead
       /\ \A i \in 1..Len(coast_file.v) : ~IsUsable(coast_file.v[i])
SeaStepKeepsOthers ==
    stage = "sea" =>
        /\ \A d \in AssetDirs \ {"sea"} : processed_dir'[d] = processed_dir[d]
        /\ buildings_metadata' = buildings_metadata
        /\ stage' \in {"sea", "footprints"}
C17_NoCoastNoSeaNoError ==
    /\ [](NoUsableCoast =>
             /\ stage \in {"footprints", "pack", "done"}
             /\ processed_dir["sea"] = EmptyDict
             /\ manifest.written =>
                   \A i \in 1..Len(manifest.assets) : manifest.assets[i].type # "sea")
    /\ [][SeaStepKeepsOthers]_vars

\* the mesh stage has ended without a sea, on a coastline file of islands
\* only, with terrain, building and road chunks written
C17_Witness ==
    /\ stage = "pack" /\ NoUsableCoast /\ ~IsNone(coast_file)
    /\ Len(coast_file.v) >= 2
    /\ \A i \in 1..Len(coast_file.v) : IsIsland(coast_file.v[i])
    /\ \A d \in {"terrain", "buildings", "roads"} : processed_dir[d] # EmptyDict

\* len(combined.faces) of a saved chunk file
TotalFaces(file) ==
    LET acc[i \in 0..Len(file)] == IF i = 0 THEN 0 ELSE acc[i - 1] + file[i].faces
    IN  acc[Len(file)]

\* the ranges of a face map, in list order, partition the faces of the file
Partitions(face_map, file) ==
    /\ Len(face_map) = Len(file) /\ Len(face_map) >= 1
    /\ face_map[1].start_face = 0
    /\ \A i \in 1..Len(face_map) :
          /\ face_map[i].start_face <= face_map[i].end_face
          /\ face_map[i].end_face - face_map[i].start_face = file[i].faces
          /\ i < Len(face_map) => face_map[i + 1].start_face = face_map[i].end_face
          /\ \A j \in (i + 1)..Len(face_map) :
                face_map[i].end_face <= face_map[j].start_face
    /\ face_map[Len(face_map)].end_face = TotalFaces(file)

\* C23: in the face map written with the building chunks, and in the one
\* written with the footprint chunks, the face ranges of the buildings of
\* one chunk partition the faces of the chunk's combined mesh in insertion
\* order: the first starts at 0, each starts where the one before ends, no
\* two overlap, the last ends at the face count of the combined mesh.
C23_FaceRangesPartitionChunk ==
    /\ \A q \in DOMAIN buildings_metadata :
          /\ q \in DOMAIN processed_dir["buildings"]
          /\ Partitions(buildings_metadata[q], processed_dir["buildings"][q])
    /\ \A q \in DOMAIN footprints_metadata :
          /\ q \in DOMAIN processed_dir["footprints"]
          /\ Partitions(footprints_metadata[q], processed_dir["footprints"][q])

\* a chunk holds two buildings, in its building file and in its footprint file
C23_Witness ==
    \E q \in DOMAIN buildings_metadata \cap DOMAIN footprints_metadata :
        /\ Len(buildings_metadata[q]) >= 2 /\ Len(footprints_metadata[q]) >= 2
        /\ buildings_metadata[q][2].start_face > 0
        /\ footprints_metadata[q][2].start_face > 0
        /\ buildings_metadata[q][2].start_face # footprints_metadata[q][2].start_face

\* the fragments of a list as they were generated, before the save tagged
\* their vertices
AsGenerated(lst) == [i \in 1..Len(lst) |-> [lst[i] EXCEPT !.gid = None]]
FragmentCount(d) ==
    LET keys == Sorted(DOMAIN d)
        acc[i \in 0..Len(keys)] == IF i = 0 THEN 0 ELSE acc[i - 1] + Len(d[keys[i]])
    IN  acc[Len(keys)]
\* the file of every key of d holds the list of d, once, in its order
SavedAsGenerated(d, dir) ==
    \A q \in DOMAIN d : d[q] # <<>> => q \in DOMAIN dir /\ AsGenerated(dir[q]) = d[q]
ListOf(d, q) == IF q \in DOMAIN d THEN d[q] ELSE <<>>

\* C24: chunks are combined only after all fragments of the asset type have
\* been generated, and combination neither loses nor duplicates fragments:
\* while a generator runs nothing is saved; every fragment it generated
\* sits once in its dictionary, under its own chunk key; the save puts the
\* list of every key, whole and once, into the chunk file of that key; and
\* water bodies and waterways with the same key go into the same water
\* chunk file.
C24_CombineAfterAllGenerated ==
    /\ [](stage \in {"buildings", "roads", "railways", "water", "waterways"} =>
             /\ FragmentCount(meshes_by_chunk) = counts.success
             /\ \A q \in DOMAIN meshes_by_chunk :
                   \A i \in 1..Len(meshes_by_chunk[q]) :
                       ChunkOf(meshes_by_chunk[q][i].pt) = q)
    /\ [][/\ \A d \in {"buildings", "roads", "railways"} :
              stage = d =>
                  IF stage' = d THEN processed_dir' = processed_dir
                  ELSE stage' # "aborted" =>
                          SavedAsGenerated(meshes_by_chunk, processed_dir'[d])
        /\ stage \in {"water", "waterways"} =>
              IF stage' \in {"water", "waterways"}
                THEN processed_dir' = processed_dir
                ELSE LET bodies == IF stage = "water" THEN meshes_by_chunk
                                   ELSE water_chunks
                         ways == IF stage = "water" THEN EmptyDict
                                 ELSE meshes_by_chunk
                     IN  \A q \in DOMAIN bodies \cup DOMAIN ways :
                            /\ q \in DOMAIN processed_dir'["water"]
                            /\ processed_dir'["water"][q] =
                                   ListOf(bodies, q) \o ListOf(ways, q)]_vars

\* a water chunk file holds a water body and a waterway
C24_Witness ==
    /\ \E q \in DOMAIN processed_dir["water"] :
          /\ \E i \in 1..Len(processed_dir["water"][q]) :
                processed_dir["water"][q][i].kind = "water"
          /\ \E i \in 1..Len(processed_dir["water"][q]) :
                processed_dir["water"][q][i].kind = "waterway"

\* C25: building packaging is hybrid with priority textured > detailed >
\* original: for every chunk id with a building file in at least one of
\* the three source directories exactly one building asset is listed, taken
\* from the textured directory if it has the chunk, otherwise from the
\* detailed directory, otherwise from the original directory.
BuildingEntries(q) ==
    { i \in 1..Len(manifest.assets) :
        manifest.assets[i].type = "buildings" /\ manifest.assets[i].id = q }
PreferredDir(q) ==
    IF q \in DOMAIN processed_dir["buildings_textured"] THEN "buildings_textured"
    ELSE IF q \in DOMAIN processed_dir["buildings_detailed"] THEN "buildings_detailed"
    ELSE "buildings"
C25_HybridPriority ==
    manifest.written =>
        /\ \A q \in UNION { DOMAIN processed_dir[BuildingDirs[i]] : i \in 1..3 } :
              /\ Cardinality(BuildingEntries(q)) = 1
              /\ \A i \in BuildingEntries(q) :
                    /\ manifest.assets[i].dir = PreferredDir(q)
                    /\ manifest.assets[i].size_bytes =
                          FileSize(processed_dir[PreferredDir(q)][q], OutputCompress)
        /\ \A i \in 1..Len(manifest.assets) :
              manifest.assets[i].type = "buildings" =>
                  \E j \in 1..3 : manifest.assets[i].id \in DOMAIN processed_dir[BuildingDirs[j]]

\* packed: a chunk all three directories hold, one only the detailed and
\* the original hold, one only the original holds
C25_Witness ==
    /\ manifest.written
    /\ \E q1 \in PackChunks, q2 \in PackChunks, q3 \in PackChunks :
          /\ \A i \in 1..3 : q1 \in DOMAIN processed_dir[BuildingDirs[i]]
          /\ q2 \notin DOMAIN processed_dir["buildings_textured"]
          /\ q2 \in DOMAIN processed_dir["buildings_detailed"]
          /\ q2 \in DOMAIN processed_dir["buildings"]
          /\ q3 \notin DOMAIN processed_dir["buildings_textured"]
          /\ q3 \notin DOMAIN processed_dir["buildings_detailed"]
          /\ q3 \in DOMAIN processed_dir["buildings"]

\* the chunk keys a generator hands to save_meshes with something to save
SavedKeys(meshes) == { q \in DOMAIN meshes : meshes[q] # <<>> }

\* C22: meshes and chunks are regenerated in full on every run: when a run
\* of mesh generation has saved an asset type, the chunk files in that
\* type's output directory (which the packaging step then lists) are
\* exactly the chunks this run produced; no file of an earlier run is left.
C22_RegeneratedInFull ==
    [][/\ \A d \in {"buildings", "roads", "railways"} :
             stage = d /\ stage' # d /\ stage' # "aborted" =>
                 DOMAIN processed_dir'[d] = SavedKeys(meshes_by_chunk)
       /\ stage \in {"water", "waterways"} /\ stage' = "sea" =>
             DOMAIN processed_dir'["water"] =
                 SavedKeys(IF stage = "water" THEN meshes_by_chunk
                        ELSE Merge(water_chunks, meshes_by_chunk))
       /\ stage = "sea" /\ stage' = "footprints" =>
             DOMAIN processed_dir'["sea"] =
                 IF IsNone(coast_file') THEN {}
                 ELSE SavedKeys(generate_sea_mesh(coast_file'.v))]_vars

(***************************************************************************)
(* ----------------------------------------------------------------------- *)
(* The orchestrator: run_pipeline.py, and what each step's script does     *)
(* when it is handed --twin-id                                             *)
(* ----------------------------------------------------------------------- *)
(***************************************************************************)
\* run_pipeline.py PIPELINE_STEPS
PIPELINE_STEPS ==
    << [name |-> "Generate AOI", script |-> "00_aoi.py",
        progress |-> 5, required |-> TRUE],
       [name |-> "Fetch Elevation", script |-> "15_fetch_elevation.py",
        progress |-> 15, required |-> FALSE],
       [name |-> "Fetch OSM Data", script |-> "20_fetch_osm.py",
        progress |-> 25, required |-> TRUE],
       [name |-> "Migrate to PostGIS", script |-> "21_migrate_to_postgis.py",
        progress |-> 35, required |-> TRUE],
       [name |-> "Enrich Buildings", script |-> "22_enrich_buildings.py",
        progress |-> 45, required |-> FALSE],
       [name |-> "Compute Building Heights", script |-> "50_building_heights.py",
        progress |-> 55, required |-> TRUE],
       [name |-> "Export Buildings", script |-> "51_export_buildings.py",
        progress |-> 65, required |-> TRUE],
       [name |-> "Generate Meshes", script |-> "60_generate_meshes.py",
        progress |-> 80, required |-> TRUE],
       [name |-> "Generate Footprints", script |-> "65_generate_footprints.py",
        progress |-> 90, required |-> TRUE],
       [name |-> "Pack Assets", script |-> "70_pack_assets.py",
        progress |-> 95, required |-> TRUE] >>

StepNamed(name) == CHOOSE i \in 1..Len(PIPELINE_STEPS) : PIPELINE_STEPS[i].name = name

\* the scripts directory as shipped, and with the migration script under
\* the name the step list gives it
ShippedScripts ==
    { PIPELINE_STEPS[i].script : i \in 1..Len(PIPELINE_STEPS) }
        \ {"21_migrate_to_postgis.py"}
ScriptDirs == { ShippedScripts, ShippedScripts \cup {"21_migrate_to_postgis.py"} }

\* origins (British National Grid, metres) an aoi.geojson can carry
Origins == { <<430000, 581000>>, <<431000, 582000>> }

\* files of the shared data directory the steps read and write:
\* interim/ndsm_clip.tif, interim/dtm_clip.tif,
\* processed/buildings_height.geojson, raw/osm/*.geojson
OsmFiles == {"roads", "railways", "water", "coast"}
DataFiles == {"ndsm", "dtm", "buildings"} \cup OsmFiles

\* the inputs of the mesh stage: its main() tests each for existence
MeshInputs == {"dtm", "buildings"} \cup OsmFiles

NoOrigins == [meshes |-> None, footprints |-> None, manifest |-> None]
NotRun == [ran |-> FALSE, rc |-> 0, skipped |-> {}]

\* what a script leaves behind: its return code as run_step sees it, the
\* files, the origin it worked with
Outcome(ok, files, orig, mesh) ==
    [ok |-> ok, fs |-> files, origins |-> orig, mesh_exit |-> mesh]
Unchanged(ok) == Outcome(ok, fs, origins, mesh_exit)

\* 00_aoi.py main(twin_id): writes the twin's config_dir / aoi.geojson with
\* the centre of the twin
run_00_aoi ==
    { Unchanged(FALSE),
      Outcome(TRUE, [fs EXCEPT !.twin_aoi = Some(twin.centre_bng)],
              origins, mesh_exit) }

\* 20_fetch_osm.py main(): no argument parsing; reads CONFIG_DIR / aoi.geojson
\* and writes the shared raw/osm directory
run_20_fetch_osm ==
    IF IsNone(fs.global_aoi) THEN { Unchanged(FALSE) }
    ELSE { Unchanged(FALSE),
           Outcome(TRUE, [fs EXCEPT !.present = @ \cup OsmFiles],
                   origins, mesh_exit) }

\* 50_building_heights.py main(): raises when the nDSM raster is not there
run_50_building_heights ==
    IF "ndsm" \notin fs.present THEN { Unchanged(FALSE) }
    ELSE { Unchanged(FALSE), Unchanged(TRUE) }

\* 51_export_buildings.py main(): returns without writing when no building
\* has a height, else writes processed/buildings_height.geojson
run_51_export_buildings ==
    { Unchanged(FALSE), Unchanged(TRUE),
      Outcome(TRUE, [fs EXCEPT !.present = @ \cup {"buildings"}],
              origins, mesh_exit) }

\* 60_generate_meshes.py main(): no argument parsing; load_aoi_centre reads
\* CONFIG_DIR / aoi.geojson; every input is tested with exists() and a
\* missing one is printed and passed over; generate_building_meshes opens
\* the DTM without testing for it
SkippedInputs_None(files) == {}
SkippedInputs(files) ==
    { f \in MeshInputs :
        \/ f \notin files
        \/ f \in {"roads", "railways", "water"} /\ "dtm" \notin files }
run_60_generate_meshes ==
    IF IsNone(fs.global_aoi)
      THEN { Outcome(FALSE, fs, origins,
                     [ran |-> TRUE, rc |-> 1, skipped |-> {}]) }
    ELSE IF "buildings" \in fs.present /\ "dtm" \notin fs.present
      THEN { Outcome(FALSE, fs, [origins EXCEPT !.meshes = fs.global_aoi],
                     [ran |-> TRUE, rc |-> 1, skipped |-> {"dtm"}]) }
    ELSE { Outcome(TRUE, fs, [origins EXCEPT !.meshes = fs.global_aoi],
                   [ran |-> TRUE, rc |-> 0,
                    skipped |-> SkippedInputs(fs.present)]) }

\* 65_generate_footprints.py main(): no argument parsing; load_aoi_centre
\* reads CONFIG_DIR / aoi.geojson; returns when an input is missing
run_65_generate_footprints ==
    IF IsNone(fs.global_aoi) THEN { Unchanged(FALSE) }
    ELSE { Outcome(TRUE, fs, [origins EXCEPT !.footprints = fs.global_aoi],
                   mesh_exit) }

\* 70_pack_assets.py main(twin_id): get_twin_paths points _config_dir at the
\* twin's directory; generate_manifest declares aoi_info["centre_bng"]
ManifestOrigin_Shared(files) == files.global_aoi
ManifestOrigin(files) == files.twin_aoi
run_70_pack_assets ==
    IF IsNone(ManifestOrigin(fs)) THEN { Unchanged(FALSE) }
    ELSE { Unchanged(FALSE),
           Outcome(TRUE, fs, [origins EXCEPT !.manifest = ManifestOrigin(fs)],
                   mesh_exit) }

\* the other steps touch nothing that is followed here
run_other == { Unchanged(FALSE), Unchanged(TRUE) }

Run(script) ==
    CASE script = "00_aoi.py" -> run_00_aoi
      [] script = "20_fetch_osm.py" -> run_20_fetch_osm
      [] script = "50_building_heights.py" -> run_50_building_heights
      [] script = "51_export_buildings.py" -> run_51_export_buildings
      [] script = "60_generate_meshes.py" -> run_60_generate_meshes
      [] script = "65_generate_footprints.py" -> run_65_generate_footprints
      [] script = "70_pack_assets.py" -> run_70_pack_assets
      [] OTHER -> run_other

\* run_pipeline: `if required: ... return False`
MustStop_Never(step, success) == FALSE
MustStop_AnyFailure(step, success) == ~success
MustStop(step, success) == ~success /\ step.required

\* update_twin_status: fields not passed keep their value
update_twin_status(status_row, fields) ==
    [k \in DOMAIN status_row |->
        IF k \in DOMAIN fields THEN fields[k] ELSE status_row[k]]

NewTwin ==
    [status |-> "pending", current_step |-> "", progress_pct |-> 0,
     error_message |-> ""]

PipelineIdle ==
    /\ twin = [centre_bng |-> <<430000, 581000>>]
    /\ scripts = ShippedScripts
    /\ fs = [global_aoi |-> None, twin_aoi |-> None, present |-> {}]
    /\ loop = "idle"
    /\ step_i = 1
    /\ child = 0
    /\ history = <<>>
    /\ twin_status = NewTwin
    /\ origins = NoOrigins
    /\ mesh_exit = NotRun

PipelineStart ==
    /\ twin \in [centre_bng : Origins]
    /\ scripts \in ScriptDirs
    /\ fs \in [global_aoi : {None} \cup { Some(o) : o \in Origins },
               twin_aoi : {None},
               present : SUBSET DataFiles]
    /\ loop = "start"
    /\ step_i = 1
    /\ child = 0
    /\ history = <<>>
    /\ twin_status = NewTwin
    /\ origins = NoOrigins
    /\ mesh_exit = NotRun

PipelineOthers == <<hvars, evars, rvars, tvars, pvars, avars>>

\* run_pipeline up to the loop: get_twin_config, status "running",
\* ensure_directories and save_settings
Initialize ==
    /\ loop = "start"
    /\ \E outcome \in {"ok", "unknown_twin", "init_failed"} :
          /\ loop' = IF outcome = "ok" THEN "steps" ELSE "returned_false"
          /\ twin_status' =
                CASE outcome = "unknown_twin" -> twin_status
                  [] outcome = "ok" ->
                        update_twin_status(twin_status,
                            [status |-> "running",
                             current_step |-> "Initializing",
                             progress_pct |-> 0])
                  [] OTHER ->
                        update_twin_status(
                            update_twin_status(twin_status,
                                [status |-> "running",
                                 current_step |-> "Initializing",
                                 progress_pct |-> 0]),
                            [status |-> "failed",
                             error_message |-> "Failed to initialize"])
    /\ UNCHANGED <<twin, scripts, fs, step_i, child, history, origins,
                   mesh_exit, PipelineOthers>>

\* one iteration of the loop up to subprocess.run: the status row is
\* updated and the script started
StartStep ==
    /\ loop = "steps" /\ child = 0 /\ step_i <= Len(PIPELINE_STEPS)
    /\ PIPELINE_STEPS[step_i].script \in scripts
    /\ twin_status' = update_twin_status(twin_status,
            [current_step |-> PIPELINE_STEPS[step_i].name,
             progress_pct |-> PIPELINE_STEPS[step_i].progress])
    /\ child' = step_i
    /\ history' = Append(history, [ev |-> "start", step |-> step_i, ok |-> TRUE,
                                   timed_out |-> FALSE])
    /\ UNCHANGED <<twin, scripts, fs, loop, step_i, origins, mesh_exit,
                   PipelineOthers>>

\* the rest of the iteration, given the step's success
AfterStep(success) ==
    IF MustStop(PIPELINE_STEPS[step_i], success)
      THEN /\ loop' = "returned_false"
           /\ step_i' = step_i
      ELSE /\ loop' = loop
           /\ step_i' = step_i + 1

\* run_step when the script file is not there: no process is started
ScriptNotFound ==
    /\ loop = "steps" /\ child = 0 /\ step_i <= Len(PIPELINE_STEPS)
    /\ PIPELINE_STEPS[step_i].script \notin scripts
    /\ AfterStep(FALSE)
    /\ twin_status' =
          LET shown == update_twin_status(twin_status,
                          [current_step |-> PIPELINE_STEPS[step_i].name,
                           progress_pct |-> PIPELINE_STEPS[step_i].progress])
          IN  IF MustStop(PIPELINE_STEPS[step_i], FALSE)
                THEN update_twin_status(shown,
                        [status |-> "failed",
                         error_message |-> PIPELINE_STEPS[step_i].name])
                ELSE shown
    /\ UNCHANGED <<twin, scripts, fs, child, history, origins, mesh_exit,
                   PipelineOthers>>

\* run_step's `except subprocess.TimeoutExpired`: the script is killed after
\* an hour; what it had written by then is not followed
TimedOut == [ok |-> FALSE, fs |-> fs, origins |-> origins, mesh_exit |-> mesh_exit,
             timed_out |-> TRUE]
Exited(out) == out @@ [timed_out |-> FALSE]

\* the script runs to its end or to the timeout, subprocess.run returns and
\* run_pipeline acts on what run_step returns
FinishStep ==
    /\ loop = "steps" /\ child # 0
    /\ \E out \in { Exited(o) : o \in Run(PIPELINE_STEPS[child].script) }
                    \cup {TimedOut} :
          /\ fs' = out.fs
          /\ origins' = out.origins
          /\ mesh_exit' = out.mesh_exit
          /\ history' = Append(history,
                [ev |-> "return", step |-> child, ok |-> out.ok,
                 timed_out |-> out.timed_out])
          /\ AfterStep(out.ok)
          /\ twin_status' =
                IF MustStop(PIPELINE_STEPS[step_i], out.ok)
                  THEN update_twin_status(twin_status,
                          [status |-> "failed",
                           error_message |-> PIPELINE_STEPS[step_i].name])
                  ELSE twin_status
    /\ child' = 0
    /\ UNCHANGED <<twin, scripts, PipelineOthers>>

\* after the loop: status "completed"
Complete ==
    /\ loop = "steps" /\ child = 0 /\ step_i > Len(PIPELINE_STEPS)
    /\ loop' = "returned_true"
    /\ twin_status' = update_twin_status(twin_status,
            [status |-> "completed", current_step |-> "Done",
             progress_pct |-> 100])
    /\ UNCHANGED <<twin, scripts, fs, step_i, child, history, origins,
                   mesh_exit, PipelineOthers>>

NextPipeline ==
    \/ Initialize
    \/ StartStep
    \/ ScriptNotFound
    \/ FinishStep
    \/ Complete

(***************************************************************************)
(* Claims about an orchestrated run                                        *)
(***************************************************************************)
\* the returns of a step's script with its own exit code
Returned(name, ok) ==
    { k \in 1..Len(history) :
        /\ history[k].ev = "return"
        /\ history[k].step = StepNamed(name)
        /\ history[k].ok = ok
        /\ ~history[k].timed_out }
Started(name) ==
    { k \in 1..Len(history) :
        history[k].ev = "start" /\ history[k].step = StepNamed(name) }

\* C12: within one run for a twin the origin is computed once by the AOI
\* step and every later stage uses it: the origin mesh and footprint
\* generation subtract is the origin the manifest declares, and both are
\* the origin the AOI step wrote for the twin.
C12_OneOriginPerRun ==
    \A a \in DOMAIN origins :
        ~IsNone(origins[a]) =>
            /\ origins[a] = Some(twin.centre_bng)
            /\ \A b \in DOMAIN origins :
                  ~IsNone(origins[b]) => origins[a] = origins[b]

\* C16: when the nDSM raster is absent, height derivation is a partial
\* failure: the heights step still completes (and the run goes on to the
\* later steps) instead of failing.
C16_NoNdsmIsPartialFailure ==
    "ndsm" \notin fs.present => Returned("Compute Building Heights", FALSE) = {}

\* C18: the mesh stage reports failure whenever a required input is absent:
\* it never returns success having passed over the terrain raster, the
\* buildings or a vector category (the coastline apart, which is optional).
RequiredMeshInputs == MeshInputs \ {"coast"}
C18_MeshStageFailsOnMissingInput ==
    mesh_exit.ran /\ mesh_exit.rc = 0 =>
        /\ RequiredMeshInputs \subseteq fs.present
        /\ mesh_exit.skipped \cap RequiredMeshInputs = {}

\* C20: the steps run one at a time in their listed order, each starting
\* only after the one before has returned, and Generate Meshes starts only
\* after Compute Building Heights and Export Buildings have both returned
\* success in this run.
C20_StepsInOrder ==
    /\ \A k \in 1..Len(history) :
          /\ history[k].ev = "start" =>
                /\ k = 1 \/ history[k - 1].ev = "return"
                /\ \A j \in 1..(k - 1) : history[j].step < history[k].step
          /\ history[k].ev = "return" =>
                /\ k > 1
                /\ history[k - 1].ev = "start"
                /\ history[k - 1].step = history[k].step
    /\ child # 0 =>
          /\ history # <<>>
          /\ history[Len(history)] = [ev |-> "start", step |-> child, ok |-> TRUE,
                                      timed_out |-> FALSE]
    /\ \A k \in Started("Generate Meshes") :
          /\ \E i \in Returned("Compute Building Heights", TRUE) : i < k
          /\ \E j \in Returned("Export Buildings", TRUE) : j < k

\* the mesh stage was started in a run in which an optional step failed
C20_Witness ==
    /\ Started("Generate Meshes") # {}
    /\ Returned("Enrich Buildings", FALSE) # {}
    /\ Returned("Generate Meshes", TRUE) # {}

\* run_step returns (False, message) for step i in this step of the run:
\* the script is missing, or it exited non-zero or timed out
StepFails(i) ==
    /\ loop = "steps" /\ step_i = i
    /\ \/ child = 0 /\ PIPELINE_STEPS[i].script \notin scripts
       \/ child # 0 /\ ~history'[Len(history')].ok
RequiredSteps == { i \in 1..Len(PIPELINE_STEPS) : PIPELINE_STEPS[i].required }
SucceededSteps ==
    { history[k].step : k \in { j \in 1..Len(history) :
                                  history[j].ev = "return" /\ history[j].ok } }

\* C21: when a required step fails (non-zero exit, timeout or missing
\* script) the twin is marked 'failed' with an error message naming the
\* step, no later step is started and 'completed' is never set in that run;
\* when a non-required step fails the run goes on with the next step;
\* 'completed' with progress 100 is set only if every required step
\* succeeded.
C21_RequiredFailureStopsRun ==
    /\ [][\A i \in 1..Len(PIPELINE_STEPS) :
            StepFails(i) =>
                IF PIPELINE_STEPS[i].required
                  THEN /\ twin_status'.status = "failed"
                       /\ twin_status'.error_message = PIPELINE_STEPS[i].name
                       /\ loop' = "returned_false"
                  ELSE /\ loop' = "steps" /\ step_i' = i + 1
                       /\ twin_status'.status = "running"]_vars
    /\ [][loop = "returned_false" =>
            /\ history' = history /\ child' = child
            /\ twin_status' = twin_status]_vars
    /\ [](twin_status.status = "completed" =>
            /\ twin_status.progress_pct = 100
            /\ RequiredSteps \subseteq SucceededSteps)

\* a required step timed out in a run in which an optional step had failed
C21_Witness ==
    /\ loop = "returned_false" /\ twin_status.status = "failed"
    /\ twin_status.error_message = "Generate Meshes"
    /\ history[Len(history)].timed_out
    /\ Returned("Enrich Buildings", FALSE) # {}

\* 30_prepare_rasters.py main writes interim/dtm_clip.tif; no other script of
\* the repository does
ClippingScript == "30_prepare_rasters.py"

\* before event k of the run, a step running the clipping script returned
\* with success
ClippingDone(k) ==
    \E j \in 1..(k - 1) :
        /\ history[j].ev = "return" /\ history[j].ok
        /\ PIPELINE_STEPS[history[j].step].script = ClippingScript

\* C28: in an orchestrated run, when Generate Meshes or Generate Footprints
\* starts, the raster clipping stage has completed earlier in the same run.
C28_ClippingBeforeSampling ==
    \A name \in {"Generate Meshes", "Generate Footprints"} :
        \A k \in Started(name) : ClippingDone(k)


(***************************************************************************)
(* ----------------------------------------------------------------------- *)
(* The API: api/routers/twins.py on one twin, with the pipeline processes  *)
(* its background tasks start                                              *)
(* ----------------------------------------------------------------------- *)
(* The handlers are coroutines with no await in their bodies: each runs    *)
(* to its end before another request is served.  A pipeline process runs   *)
(* beside them and beside other pipeline processes.                        *)
(***************************************************************************)
\* bound: pipeline processes queued for the twin
MaxPipelines == 2

\* <twin>/ itself with raw/, the interim, processed and config directories
\* under it, and dist/twins/<twin>
TwinDirs == {"data", "work", "dist"}

RowExists == twin_row \notin {"absent", "deleted"}

\* where a pipeline process is: the background task not yet run, the process
\* started by Popen, get_twin_config done, status written, directories and
\* settings made (the steps run), process gone
Active == {"queued", "started", "loaded", "marked", "steps"}
ActivePipelines == { i \in 1..Len(pipelines) : pipelines[i] \in Active }

\* background_tasks.add_task(run_pipeline, twin_id)
add_task(tasks) == Append(tasks, "queued")

ApiIdle ==
    /\ twin_row = "absent"
    /\ twin_dirs = {}
    /\ pipelines = <<>>

\* the twin is new, or its row was left by an earlier run that has ended;
\* 'awaiting_lidar' is a status the endpoints test for
ApiStart ==
    /\ pipelines = <<>>
    /\ \/ twin_row = "absent" /\ twin_dirs = {}
       \/ twin_row \in {"completed", "failed", "awaiting_lidar"}
            /\ twin_dirs = TwinDirs

ApiOthers == <<hvars, evars, rvars, tvars, pvars, ovars>>

\* POST /api/twins
create_twin ==
    /\ twin_row = "absent" /\ Len(pipelines) < MaxPipelines
    /\ twin_row' = "pending"
    /\ twin_dirs' = twin_dirs \cup {"data", "dist"}
    /\ pipelines' = add_task(pipelines)
    /\ UNCHANGED ApiOthers

\* DELETE /api/twins/{id}
delete_twin ==
    /\ RowExists /\ twin_row # "running"
    /\ twin_row' = "deleted"
    /\ twin_dirs' = {}
    /\ UNCHANGED <<pipelines, ApiOthers>>

\* POST /api/twins/{id}/continue, when check_tiles_exist finds no tile missing
continue_twin ==
    /\ twin_row = "awaiting_lidar" /\ Len(pipelines) < MaxPipelines
    /\ twin_row' = "running"
    /\ pipelines' = add_task(pipelines)
    /\ UNCHANGED <<twin_dirs, ApiOthers>>

\* POST /api/twins/{id}/skip-lidar
skip_lidar ==
    /\ twin_row = "awaiting_lidar" /\ Len(pipelines) < MaxPipelines
    /\ twin_row' = "running"
    /\ pipelines' = add_task(pipelines)
    /\ UNCHANGED <<twin_dirs, ApiOthers>>

\* POST /api/twins/{id}/retry
retry_twin ==
    /\ twin_row \in {"failed", "pending"} /\ Len(pipelines) < MaxPipelines
    /\ twin_row' = "pending"
    /\ pipelines' = add_task(pipelines)
    /\ UNCHANGED <<twin_dirs, ApiOthers>>

\* POST /api/twins/{id}/regenerate
regenerate_twin ==
    /\ RowExists /\ twin_row # "running" /\ Len(pipelines) < MaxPipelines
    /\ twin_dirs' = twin_dirs \ {"work", "dist"}
    /\ twin_row' = "pending"
    /\ pipelines' = add_task(pipelines)
    /\ UNCHANGED ApiOthers

\* update_twin_status from a pipeline process: UPDATE ... WHERE id = %s
\* changes the row if it is there
StatusWritten(status) == IF RowExists THEN status ELSE twin_row

\* the background task: twins.py run_pipeline starts the process and returns
Popen ==
    \E i \in 1..Len(pipelines) :
        /\ pipelines[i] = "queued"
        /\ pipelines' = [pipelines EXCEPT ![i] = "started"]
        /\ UNCHANGED <<twin_row, twin_dirs, ApiOthers>>

\* run_pipeline.py run_pipeline: get_twin_config
LoadConfig ==
    \E i \in 1..Len(pipelines) :
        /\ pipelines[i] = "started"
        /\ pipelines' = [pipelines EXCEPT ![i] = IF RowExists THEN "loaded" ELSE "exited"]
        /\ UNCHANGED <<twin_row, twin_dirs, ApiOthers>>

\* update_twin_status(status="running")
MarkRunning ==
    \E i \in 1..Len(pipelines) :
        /\ pipelines[i] = "loaded"
        /\ pipelines' = [pipelines EXCEPT ![i] = "marked"]
        /\ twin_row' = StatusWritten("running")
        /\ UNCHANGED <<twin_dirs, ApiOthers>>

\* config.ensure_directories() and config.save_settings(), or
\* "Failed to initialize"
EnsureDirectories ==
    \E i \in 1..Len(pipelines), made \in BOOLEAN :
        /\ pipelines[i] = "marked"
        /\ pipelines' = [pipelines EXCEPT ![i] = IF made THEN "steps" ELSE "exited"]
        /\ twin_dirs' = IF made THEN TwinDirs ELSE twin_dirs
        /\ twin_row' = IF made THEN twin_row ELSE StatusWritten("failed")
        /\ UNCHANGED ApiOthers

\* the steps, then status "completed", or "failed" at a required step
EndRun ==
    \E i \in 1..Len(pipelines), status \in {"completed", "failed"} :
        /\ pipelines[i] = "steps"
        /\ pipelines' = [pipelines EXCEPT ![i] = "exited"]
        /\ twin_row' = StatusWritten(status)
        /\ UNCHANGED <<twin_dirs, ApiOthers>>

NextApi ==
    \/ create_twin
    \/ delete_twin
    \/ continue_twin
    \/ skip_lidar
    \/ retry_twin
    \/ regenerate_twin
    \/ Popen
    \/ LoadConfig
    \/ MarkRunning
    \/ EnsureDirectories
    \/ EndRun

(***************************************************************************)
(* Claims on the API (checked under SpecApi)                               *)
(***************************************************************************)
\* C29: for the twin at most one pipeline process is queued or running at
\* any time.
C29_OnePipelinePerTwin == Cardinality(ActivePipelines) <= 1

\* C30: the twin's row and its directories are not removed, by delete or by
\* regenerate, while a pipeline process of the twin is queued or running.
C30_NoRemovalUnderPipeline ==
    [][(\/ RowExists /\ twin_row' = "deleted"
        \/ twin_dirs \ twin_dirs' # {})
          => ActivePipelines = {}]_vars

(***************************************************************************)
(* Specifications                                                          *)
(***************************************************************************)
HeightsInit ==
    HeightsStart /\ EnvelopeStart /\ RibbonIdle /\ TerrainIdle /\ SceneStart /\ PipelineIdle /\ ApiIdle
SpecHeights == HeightsInit /\ [][NextHeights]_vars

EnvelopeInit ==
    EnvelopeStart /\ HeightsStart /\ RibbonIdle /\ TerrainIdle /\ SceneStart /\ PipelineIdle /\ ApiIdle
SpecEnvelope == EnvelopeInit /\ [][NextEnvelope]_vars

RibbonInit ==
    RibbonStart /\ HeightsStart /\ EnvelopeStart /\ TerrainIdle /\ SceneStart /\ PipelineIdle /\ ApiIdle
SpecRibbon == RibbonInit /\ [][NextRibbon]_vars

TerrainInit ==
    TerrainStart /\ HeightsStart /\ EnvelopeStart /\ RibbonIdle /\ SceneStart /\ PipelineIdle /\ ApiIdle
SpecTerrain == TerrainInit /\ [][NextTerrain]_vars

SceneInit ==
    SceneStart /\ HeightsStart /\ EnvelopeStart /\ RibbonIdle /\ TerrainIdle /\ PipelineIdle /\ ApiIdle
SpecScene == SceneInit /\ [][NextScene]_vars

SpecRegenerate == SceneInit /\ [][NextRegenerate]_vars

PackInit ==
    PackStart /\ HeightsStart /\ EnvelopeStart /\ RibbonIdle /\ TerrainIdle /\ PipelineIdle /\ ApiIdle
SpecPack == PackInit /\ [][NextPack]_vars

PipelineInit ==
    PipelineStart /\ HeightsStart /\ EnvelopeStart /\ RibbonIdle /\ TerrainIdle /\ SceneStart /\ ApiIdle
SpecPipeline == PipelineInit /\ [][NextPipeline]_vars

ApiInit ==
    ApiStart /\ HeightsStart /\ EnvelopeStart /\ RibbonIdle /\ TerrainIdle /\ SceneStart /\ PipelineIdle
SpecApi == ApiInit /\ [][NextApi]_vars

=============================================================================
